---------------------------- MODULE Spec2Model ----------------------------
(***************************************************************************)
(* A model of the VGCN infrastructure reconciler:                          *)
(*   synchronize.py     compute_increment, filter_incorrect_images,        *)
(*                      unique_name, remove_server, create_server,         *)
(*                      synchronize_infrastructure                         *)
(*   check_conflicts.py check_conflicts                                    *)
(*                                                                         *)
(* Strings are sequences of one-character strings, so that                 *)
(* str.startswith and the f-string name construction are computed and not  *)
(* assumed.  Dates are day numbers.                                        *)
(***************************************************************************)
EXTENDS Integers, Sequences, FiniteSets, TLC

(***************************************************************************)
(* Bounds of the model.                                                    *)
(***************************************************************************)
MaxCount == 2
MaxFleet == 2
MaxInventory == 2

(***************************************************************************)
(* Strings.                                                                *)
(***************************************************************************)
PREFIX == <<"v", "g", "c", "n", "b", "w", "c", "-">>

StartsWith(s, p) == Len(s) >= Len(p) /\ SubSeq(s, 1, Len(p)) = p

Digits == <<"0", "1", "2", "3", "4", "5", "6", "7", "8", "9">>

\* f"{i:04d}"
Format04d(i) ==
    << Digits[((i \div 1000) % 10) + 1], Digits[((i \div 100) % 10) + 1],
       Digits[((i \div 10) % 10) + 1], Digits[(i % 10) + 1] >>

\* f"{prefix}-{i:04d}"
NameOf(prefix, i) == prefix \o <<"-">> \o Format04d(i)

NameRangeEnd == 10000

\* for i in range(start, end): ... break.  The i at which the loop breaks, end
\* when it runs to its end.  The range is walked in ascending order, one half
\* after the other, which keeps the depth of the evaluation small.
RECURSIVE UniqueNameFrom(_, _, _, _)
UniqueNameFrom(prefix, existing_names, start, end) ==
    IF end <= start THEN end
    ELSE IF end = start + 1
    THEN IF NameOf(prefix, start) \notin existing_names THEN start ELSE end
    ELSE LET mid == (start + end) \div 2
             first == UniqueNameFrom(prefix, existing_names, start, mid)
         IN  IF first < mid THEN first
             ELSE UniqueNameFrom(prefix, existing_names, mid, end)

\* the loop that takes the first name whether it is in use or not
unique_nameNoCheck(prefix, existing_names) == NameOf(prefix, 0)

\* the loop that never reaches its else clause
unique_nameNoRaise(prefix, existing_names) ==
    LET i == UniqueNameFrom(prefix, existing_names, 0, NameRangeEnd)
    IN  NameOf(prefix, i % NameRangeEnd)

unique_name(prefix, existing_names) ==
    LET i == UniqueNameFrom(prefix, existing_names, 0, NameRangeEnd)
    IN  IF i = NameRangeEnd THEN <<"ValueError">> ELSE NameOf(prefix, i)

(***************************************************************************)
(* Dates.  A group_config without "start" (or "end") carries NoDate.       *)
(***************************************************************************)
Today == 2
NoDate == 0
Days == {Today - 1, Today, Today + 1}

\* dict.get(key, default)
GetDate(d, default) == IF d = NoDate THEN default ELSE d

(***************************************************************************)
(* compute_increment(group_config, status)                                 *)
(***************************************************************************)
IncrementIgnoringEnd(group_config, status) ==
    IF GetDate(group_config.start, Today) <= Today
    THEN group_config.count - status
    ELSE 0 - status

compute_increment(group_config, status) ==
    LET date_range_is_valid ==
            /\ GetDate(group_config.start, Today) <= Today
            /\ Today <= GetDate(group_config.end, Today)
    IN  IF date_range_is_valid
        THEN group_config.count - status
        ELSE 0 - status

(***************************************************************************)
(* The desired state (resources.yaml).  "deployment" keeps the key order   *)
(* of the document; "groups" maps a group identifier to its group_config.  *)
(***************************************************************************)
Compute == <<"c", "m", "p">>
ComputeGeneral == <<"c", "m", "p", "-", "g", "n">>
GroupIds == {Compute, ComputeGeneral}

Flavor == "m1.small"

\* config["images"]["default"], a UUID; the image of an outdated server; the
\* image id of a server booted from a volume (and Python's None in general)
IMAGE == "IMAGE"
OLD_IMAGE == "OLD_IMAGE"
None == "None"

\* the group_configs a deployment is drawn from: every count without dates, and
\* MaxCount servers in a window that contains today or has passed
MainGroupConfigs ==
    { [count |-> c, flavor |-> Flavor, start |-> NoDate, end |-> NoDate] :
        c \in 0 .. MaxCount }
    \cup
    { [count |-> MaxCount, flavor |-> Flavor, start |-> Today - 1, end |-> Today + 1],
      [count |-> MaxCount, flavor |-> Flavor, start |-> Today - 1, end |-> Today - 1] }

DeploymentOrders ==
    { <<Compute>>, <<ComputeGeneral>>,
      <<Compute, ComputeGeneral>>, <<ComputeGeneral, Compute>> }

Range(s) == {s[k] : k \in 1 .. Len(s)}

Configs ==
    UNION { [ deployment : {d},
              groups : [Range(d) -> MainGroupConfigs],
              nodes_inventory : {[f \in {Flavor} |-> MaxInventory]},
              graceful : BOOLEAN ] : d \in DeploymentOrders }

(***************************************************************************)
(* The cloud: a set of servers {id, name, status, image}; "image" stands   *)
(* for server["image"]["id"], None for a server booted from a volume.      *)
(***************************************************************************)
ServerKinds ==
    { [status |-> "ACTIVE", image |-> IMAGE],
      [status |-> "ACTIVE", image |-> OLD_IMAGE],
      [status |-> "ACTIVE", image |-> None],
      [status |-> "ERROR", image |-> OLD_IMAGE] }

\* the servers an initial fleet is drawn from: two names of the group Compute,
\* one of the group ComputeGeneral; the id follows from the name, so that no two
\* fleets differ in ids only
FleetSlots ==
    { [id |-> 1, name |-> NameOf(PREFIX \o Compute, 0)],
      [id |-> 2, name |-> NameOf(PREFIX \o Compute, 1)],
      [id |-> 3, name |-> NameOf(PREFIX \o ComputeGeneral, 0)] }

FirstNewId == Cardinality(FleetSlots) + 1

Fleets ==
    UNION { { { [id |-> sl.id, name |-> sl.name,
                 status |-> kind[sl].status, image |-> kind[sl].image] : sl \in slots } :
              kind \in [slots -> ServerKinds] } :
            slots \in {ss \in SUBSET FleetSlots : Cardinality(ss) <= MaxFleet} }

\* every order in which cloud.compute.servers() may list a set of servers
Listings(S) ==
    { l \in [1 .. Cardinality(S) -> S] : \A a, b \in 1 .. Cardinality(S) : l[a] = l[b] => a = b }

(***************************************************************************)
(* State of one call synchronize_infrastructure(config, cloud, dry_run).   *)
(***************************************************************************)
VARIABLES
    config,            \* the resource definition
    dry_run,           \* the dry_run argument
    cloud,             \* the servers that exist in OpenStack
    next_id,           \* the id OpenStack gives the next server
    pc,                \* "start", "apply", "replace", "replace_create", "done", "raised"
    raised,            \* the exception that left synchronize_infrastructure, or None
    servers,           \* list(cloud.compute.servers())
    servers_by_group,
    increments,
    removals,
    replacements,
    server_names,
    gi,                \* position of the apply loop in increments.items()
    i,                 \* position of the inner loop of the group
    ri,                \* position of the replace loop in the flagged servers
    calls              \* the requests issued to the cloud and over SSH, in order

\* one call compute_increment(group_config, status)
VARIABLES inc_config, inc_status, inc_pc, inc_result

\* one call check_conflicts(file_path), cc_data the document the file holds
VARIABLES cc_data, cc_pc, cc_result

\* one remote command and the function that runs it: remote_command,
\* condor_drain or condor_active
VARIABLES cmd_stdout, cmd_stderr, cmd_exit_code, cmd_log, cmd_pc, cmd_result

\* one call remove_server, gracefully_terminate or condor_graceful_shutdown
VARIABLES
    gt_entry,          \* the function called
    gt_server,         \* the server argument
    gt_graceful,       \* config["graceful"]
    gt_timeout,        \* the timeout argument, in seconds
    gt_host_key,       \* the host key the server presents over SSH
    gt_pc,             \* the statement the call stands at
    gt_exc,            \* the exception that left the call, or None
    gt_active,         \* the local active of condor_graceful_shutdown
    gt_elapsed,        \* current - start of condor_graceful_shutdown
    gt_shutdown,       \* "none", "running", "returned", "raised", "hung"
    gt_seen,           \* what the remote commands answered so far
    gt_calls           \* the requests issued to the cloud and over SSH, in order

\* one call get_ssh_access_address(client, server)
VARIABLES
    ssh_accepts,       \* what connecting to each address of the server gives
    ssh_left,          \* the addresses the loop has not tried yet
    ssh_tried,         \* the addresses the loop connected to, in order
    ssh_logged,        \* the exceptions logged as warnings
    ssh_pc,
    ssh_result         \* the address returned or the exception raised, or None

sshVars == <<ssh_accepts, ssh_left, ssh_tried, ssh_logged, ssh_pc, ssh_result>>

\* one call wait_for_state(server, target_states, cloud, timeout) or
\* delete_and_wait(server, cloud, timeout)
VARIABLES
    wfs_entry,         \* the function called
    wfs_target_states,
    wfs_timeout,       \* in units of interval
    wfs_cloud,         \* the status of the server in the cloud, None once it is gone
    wfs_server,        \* the local server: the status of the mapping it holds, or None
    wfs_elapsed,       \* time.time() - start, in units of interval
    wfs_pc,
    wfs_exc,           \* the exception that left the call, or None
    wfs_timed_out,     \* the loop ended on its timeout
    wfs_calls          \* the requests issued to the cloud, in order

wfsVars == <<wfs_entry, wfs_target_states, wfs_timeout, wfs_cloud, wfs_server,
             wfs_elapsed, wfs_pc, wfs_exc, wfs_timed_out, wfs_calls>>

\* one call unique_name(prefix, existing_names)
VARIABLES un_prefix, un_existing_names, un_pc, un_result

unVars == <<un_prefix, un_existing_names, un_pc, un_result>>

\* one call allocate_resources(resources, fraction) of htcondor_migration.py
VARIABLES
    ar_input,          \* the document passed, as it was when the call began
    ar_fraction,
    ar_store,          \* the documents in memory, by object
    ar_original,       \* the object the local original refers to, 0 before it is set
    ar_modified,       \* the object the local modified refers to, 0 before it is set
    ar_primary,        \* primary_deployment
    ar_secondary,      \* secondary_deployment
    ar_k,              \* position of the loop in resources["deployment"].items()
    ar_pc,
    ar_exc,            \* the exception that left the call, or None
    ar_result          \* the object returned, 0 when none is

arVars == <<ar_input, ar_fraction, ar_store, ar_original, ar_modified, ar_primary,
            ar_secondary, ar_k, ar_pc, ar_exc, ar_result>>

\* the calls modelled further down
auxVars == <<sshVars, wfsVars, unVars, arVars>>

incVars == <<inc_config, inc_status, inc_pc, inc_result>>
ccVars == <<cc_data, cc_pc, cc_result>>
cmdVars == <<cmd_stdout, cmd_stderr, cmd_exit_code, cmd_log, cmd_pc, cmd_result>>
gtVars == <<gt_entry, gt_server, gt_graceful, gt_timeout, gt_host_key, gt_pc, gt_exc, gt_active,
            gt_elapsed, gt_shutdown, gt_seen, gt_calls>>
planVars == <<servers, servers_by_group, increments, removals, replacements>>
mainVars == <<config, dry_run, cloud, next_id, pc, raised, servers, servers_by_group,
              increments, removals, replacements, server_names, gi, i, ri, calls>>

Min(a, b) == IF a < b THEN a ELSE b
Abs(n) == IF n < 0 THEN 0 - n ELSE n

\* s[0:n] and s[n:] of a Python list
Take(s, n) == SubSeq(s, 1, Min(n, Len(s)))
Drop(s, n) == SubSeq(s, Min(n, Len(s)) + 1, Len(s))

\* config["images"][group_config.get("image", "default")], resolved to an id
ResolveImage(cfg, group_config) == IMAGE

(***************************************************************************)
(* filter_incorrect_images(servers, config, group_config, cloud)           *)
(***************************************************************************)
filter_incorrect_images(srvs, cfg, group_config) ==
    LET image == ResolveImage(cfg, group_config)
        Incorrect(server) == server.image # None /\ server.image # image
    IN  SelectSeq(srvs, Incorrect)

(***************************************************************************)
(* The plan of synchronize_infrastructure.                                 *)
(***************************************************************************)
\* the test on the prefix alone
InGroupOfAny(server, group) == StartsWith(server.name, PREFIX)

InGroup(server, group) == StartsWith(server.name, PREFIX \o group)

ServersByGroup(cfg, srvs) ==
    [group \in Range(cfg.deployment) |->
        SelectSeq(srvs, LAMBDA server : InGroup(server, group))]

Increments(cfg, by_group) ==
    [group \in DOMAIN by_group |->
        compute_increment(cfg.groups[group], Len(by_group[group]))]

Removals(by_group, incs) ==
    [group \in DOMAIN incs |-> Take(by_group[group], Abs(incs[group]))]

\* the filter applied to every server of the group
ReplacementsOfAll(cfg, by_group, incs) ==
    [group \in DOMAIN incs |->
        filter_incorrect_images(by_group[group], cfg, cfg.groups[group])]

Replacements(cfg, by_group, incs) ==
    [group \in DOMAIN incs |->
        filter_incorrect_images(Drop(by_group[group], Abs(incs[group])),
                                cfg, cfg.groups[group])]

\* ((group, flagged_server) for group, flagged_servers in replacements.items()
\*                          for flagged_server in flagged_servers)
RECURSIVE FlaggedFrom(_, _, _)
FlaggedFrom(cfg, repl, k) ==
    IF k > Len(cfg.deployment) THEN <<>>
    ELSE LET group == cfg.deployment[k]
         IN  [j \in 1 .. Len(repl[group]) |->
                 [group |-> group, server |-> repl[group][j]]]
             \o FlaggedFrom(cfg, repl, k + 1)

Flagged == FlaggedFrom(config, replacements, 1)

(***************************************************************************)
(* Requests.  Every request the reconciler issues is appended to calls.    *)
(***************************************************************************)
DeleteCall(server) == [op |-> "delete_server", id |-> server.id, name |-> server.name]
SshCall(server) == [op |-> "ssh_connect", id |-> server.id, name |-> server.name]
CondorCall(server) ==
    [op |-> "condor_graceful_shutdown", id |-> server.id, name |-> server.name]
CreateCall(name, group) == [op |-> "create_server", name |-> name, group |-> group]

Listed(server) == \E s \in cloud : s.id = server.id

(***************************************************************************)
(* delete_and_wait(server, cloud): delete_server, then wait_for_state      *)
(* polls find_server until it returns None.  An outcome names the          *)
(* exception raised (None: returned), whether the server is gone, and the  *)
(* requests issued.                                                        *)
(***************************************************************************)
DeleteAndWaitOutcomes(server) ==
    { [exc |-> None, gone |-> TRUE, calls |-> <<DeleteCall(server)>>],
      [exc |-> "SDKException", gone |-> FALSE, calls |-> <<DeleteCall(server)>>] }
    \cup
    \* still listed when the timeout elapses: the raise statement of
    \* wait_for_state joins target_states = {None} and fails
    { o \in { [exc |-> "TypeError", gone |-> FALSE, calls |-> <<DeleteCall(server)>>] } :
        Listed(server) }

(***************************************************************************)
(* gracefully_terminate(server, cloud)                                     *)
(***************************************************************************)
GracefullyTerminateOutcomes(server) ==
    IF server.status = "ACTIVE"
    THEN { \* get_ssh_access_address: no address accepts the connection
           [exc |-> "RuntimeError", gone |-> FALSE, calls |-> <<SshCall(server)>>],
           \* client.connect(ip, ...) fails on the address found
           [exc |-> "NoValidConnectionsError", gone |-> FALSE,
            calls |-> <<SshCall(server), SshCall(server)>>],
           \* condor_graceful_shutdown raises in shutdown_process.run()
           [exc |-> "CondorShutdownException", gone |-> FALSE,
            calls |-> <<SshCall(server), SshCall(server), CondorCall(server)>>],
           \* shutdown_process.join() on a process that was run(), never started
           [exc |-> "AssertionError", gone |-> FALSE,
            calls |-> <<SshCall(server), SshCall(server), CondorCall(server)>>] }
    ELSE DeleteAndWaitOutcomes(server)

(***************************************************************************)
(* remove_server(server, config, cloud)                                    *)
(***************************************************************************)
RemoveServerOutcomes(server, cfg) ==
    IF cfg.graceful
    THEN { IF o.exc = "NoValidConnectionsError"
           THEN [o EXCEPT !.exc = None]      \* logged as a warning
           ELSE o : o \in GracefullyTerminateOutcomes(server) }
    ELSE DeleteAndWaitOutcomes(server)

(***************************************************************************)
(* create_server(name, config, group_config, cloud, block=True)            *)
(***************************************************************************)
CreateServerOutcomes ==
    { [exc |-> None, created |-> TRUE, status |-> "ACTIVE"],
      [exc |-> None, created |-> TRUE, status |-> "ERROR"],
      \* cloud.compute.create_server raises
      [exc |-> "SDKException", created |-> FALSE, status |-> None],
      \* wait_for_state times out, the server neither ACTIVE nor ERROR
      [exc |-> "RuntimeError", created |-> TRUE, status |-> "BUILD"] }

NewServer(name, cfg, group, status) ==
    [id |-> next_id, name |-> name, status |-> status,
     image |-> ResolveImage(cfg, cfg.groups[group])]

CloudAfterCreate(o, name, group) ==
    IF o.created THEN cloud \cup {NewServer(name, config, group, o.status)} ELSE cloud

CloudAfterRemove(o, server) ==
    IF o.gone THEN {s \in cloud : s.id # server.id} ELSE cloud

(***************************************************************************)
(* synchronize_infrastructure(config, cloud, dry_run)                      *)
(***************************************************************************)
MainInit ==
    /\ config \in Configs
    /\ dry_run \in BOOLEAN
    /\ cloud \in Fleets
    /\ next_id = FirstNewId
    /\ pc = "start"
    /\ raised = None
    /\ servers = <<>>
    /\ servers_by_group = <<>>
    /\ increments = <<>>
    /\ removals = <<>>
    /\ replacements = <<>>
    /\ server_names = {}
    /\ gi = 1
    /\ i = 0
    /\ ri = 1
    /\ calls = <<>>

\* where the run stands once the apply loop has reached position k
PcAtGroup(k, flagged) ==
    IF k <= Len(config.deployment) THEN "apply"
    ELSE IF flagged # <<>> THEN "replace" ELSE "done"

\* lines 837-838: if dry_run: return
PcAfterPlanNoReturn(flagged) == PcAtGroup(1, flagged)

PcAfterPlan(flagged) == IF dry_run THEN "done" ELSE PcAtGroup(1, flagged)

\* lines 782-841: list the servers, compute and report the plan, return on a dry run
Plan ==
    /\ pc = "start"
    /\ \E listing \in Listings(cloud) :
        LET by_group == ServersByGroup(config, listing)
            incs == Increments(config, by_group)
            repl == Replacements(config, by_group, incs)
        IN  /\ servers' = listing
            /\ servers_by_group' = by_group
            /\ increments' = incs
            /\ removals' = Removals(by_group, incs)
            /\ replacements' = repl
            /\ server_names' = IF dry_run THEN {} ELSE {listing[k].name : k \in 1 .. Len(listing)}
            /\ pc' = PcAfterPlan(FlaggedFrom(config, repl, 1))
    /\ UNCHANGED <<incVars, ccVars, cmdVars, gtVars, auxVars, config, dry_run, cloud, next_id, raised, gi, i, ri, calls>>

Group == config.deployment[gi]

\* lines 843-858: one iteration of the loop that adds servers
AddServer ==
    /\ pc = "apply"
    /\ increments[Group] > 0
    /\ LET name == unique_name(PREFIX \o Group, server_names)
       IN  IF name = <<"ValueError">>
           THEN /\ raised' = "ValueError"
                /\ pc' = "raised"
                /\ UNCHANGED <<cloud, next_id, server_names, gi, i, calls>>
           ELSE \E o \in CreateServerOutcomes :
                /\ server_names' = server_names \cup {name}
                /\ calls' = Append(calls, CreateCall(name, Group))
                /\ cloud' = CloudAfterCreate(o, name, Group)
                /\ next_id' = IF o.created THEN next_id + 1 ELSE next_id
                /\ raised' = o.exc
                /\ IF o.exc # None
                   THEN pc' = "raised" /\ UNCHANGED <<gi, i>>
                   ELSE IF i + 1 < increments[Group]
                   THEN pc' = "apply" /\ i' = i + 1 /\ UNCHANGED gi
                   ELSE pc' = PcAtGroup(gi + 1, Flagged) /\ i' = 0 /\ gi' = gi + 1
    /\ UNCHANGED <<incVars, ccVars, cmdVars, gtVars, auxVars, config, dry_run, planVars, ri>>

\* lines 859-863: one iteration of the loop that removes servers
RemoveSurplus ==
    /\ pc = "apply"
    /\ increments[Group] < 0
    /\ LET server == removals[Group][i + 1]
       IN  \E o \in RemoveServerOutcomes(server, config) :
           /\ calls' = calls \o o.calls
           /\ cloud' = CloudAfterRemove(o, server)
           /\ IF o.exc # None
              THEN /\ raised' = o.exc
                   /\ pc' = "raised"
                   /\ UNCHANGED <<server_names, gi, i>>
              ELSE IF server.name \notin server_names
              THEN /\ raised' = "KeyError"        \* server_names.remove(...)
                   /\ pc' = "raised"
                   /\ UNCHANGED <<server_names, gi, i>>
              ELSE /\ raised' = None
                   /\ server_names' = server_names \ {server.name}
                   /\ IF i + 1 < Len(removals[Group])
                      THEN pc' = "apply" /\ i' = i + 1 /\ UNCHANGED gi
                      ELSE pc' = PcAtGroup(gi + 1, Flagged) /\ i' = 0 /\ gi' = gi + 1
    /\ UNCHANGED <<incVars, ccVars, cmdVars, gtVars, auxVars, config, dry_run, planVars, next_id, ri>>

\* lines 842-863: a group whose increment is zero
KeepGroup ==
    /\ pc = "apply"
    /\ increments[Group] = 0
    /\ gi' = gi + 1
    /\ pc' = PcAtGroup(gi + 1, Flagged)
    /\ UNCHANGED <<incVars, ccVars, cmdVars, gtVars, auxVars, config, dry_run, planVars, cloud, next_id, raised, server_names,
                   i, ri, calls>>

\* line 872: remove_server(flagged_server, config, cloud)
ReplaceRemove ==
    /\ pc = "replace"
    /\ LET server == Flagged[ri].server
       IN  \E o \in RemoveServerOutcomes(server, config) :
           /\ calls' = calls \o o.calls
           /\ cloud' = CloudAfterRemove(o, server)
           /\ raised' = o.exc
           /\ pc' = IF o.exc # None THEN "raised" ELSE "replace_create"
    /\ UNCHANGED <<incVars, ccVars, cmdVars, gtVars, auxVars, config, dry_run, planVars, next_id, server_names, gi, i, ri>>

\* lines 873-881: create_server(name=flagged_server["name"], ...)
ReplaceCreate ==
    /\ pc = "replace_create"
    /\ LET name == Flagged[ri].server.name
           group == Flagged[ri].group
       IN  \E o \in CreateServerOutcomes :
           /\ calls' = Append(calls, CreateCall(name, group))
           /\ cloud' = CloudAfterCreate(o, name, group)
           /\ next_id' = IF o.created THEN next_id + 1 ELSE next_id
           /\ raised' = o.exc
           /\ IF o.exc # None
              THEN pc' = "raised" /\ UNCHANGED ri
              ELSE /\ ri' = ri + 1
                   /\ pc' = IF ri + 1 <= Len(Flagged) THEN "replace" ELSE "done"
    /\ UNCHANGED <<incVars, ccVars, cmdVars, gtVars, auxVars, config, dry_run, planVars, server_names, gi, i>>

MainNext ==
    \/ Plan
    \/ AddServer
    \/ RemoveSurplus
    \/ KeepGroup
    \/ ReplaceRemove
    \/ ReplaceCreate


(***************************************************************************)
(* What the specification asks of a desired state and of a plan.           *)
(***************************************************************************)
\* start <= today <= end, a missing bound being today
InWindow(group_config, day) ==
    /\ (group_config.start = NoDate \/ group_config.start <= day)
    /\ (group_config.end = NoDate \/ day <= group_config.end)

EffectiveCount(group_config) ==
    IF InWindow(group_config, Today) THEN group_config.count ELSE 0

\* name.startswith("vgcnbwc-" + g + "-")
Owns(group, server) == StartsWith(server.name, PREFIX \o group \o <<"-">>)

RECURSIVE SumOver(_, _)
SumOver(f, S) ==
    IF S = {} THEN 0
    ELSE LET x == CHOOSE y \in S : TRUE IN f[x] + SumOver(f, S \ {x})

Dated(group_config) == group_config.start # NoDate \/ group_config.end # NoDate

\* the servers of flavor f requested on day d: the undated groups and the dated
\* groups whose window (a missing bound being today) contains d
Requested(groups, f, d) ==
    LET need == [g \in DOMAIN groups |->
                    IF /\ groups[g].flavor = f
                       /\ \/ ~Dated(groups[g])
                          \/ /\ GetDate(groups[g].start, Today) <= d
                             /\ d <= GetDate(groups[g].end, Today)
                    THEN groups[g].count ELSE 0]
    IN  SumOver(need, DOMAIN groups)

CapacityConflict(groups, nodes_inventory) ==
    \E f \in DOMAIN nodes_inventory : \E d \in Days :
        Requested(groups, f, d) > nodes_inventory[f]

\* the order of str on the characters of server names
Alphabet == <<"-", "0", "1", "2", "3", "4", "5", "6", "7", "8", "9",
              "b", "c", "g", "m", "n", "p", "v", "w">>
Rank(ch) == CHOOSE k \in 1 .. Len(Alphabet) : Alphabet[k] = ch

RECURSIVE StrLess(_, _)
StrLess(a, b) ==
    IF b = <<>> THEN FALSE
    ELSE IF a = <<>> THEN TRUE
    ELSE IF Head(a) = Head(b) THEN StrLess(Tail(a), Tail(b))
    ELSE Rank(Head(a)) < Rank(Head(b))

Planned == pc # "start"
Returned == pc = "done"
DeployedGroups == Range(config.deployment)
IsMutation(call) == call.op \in {"create_server", "delete_server"}

(***************************************************************************)
(* Claims about synchronize_infrastructure.                                *)
(***************************************************************************)
\* C1: after a non-dry-run synchronize_infrastructure that returns without
\* raising, every group has exactly its effective count of servers (count inside
\* the date window, 0 outside) and each of them that was booted from an image runs
\* the image configured for the group.
C1_Converged ==
    (Returned /\ ~dry_run /\ raised = None) =>
        \A g \in DeployedGroups :
            LET owned == {s \in cloud : Owns(g, s)}
            IN  /\ Cardinality(owned) = EffectiveCount(config.groups[g])
                /\ \A s \in owned :
                       s.image # None => s.image = ResolveImage(config, config.groups[g])

\* C3: the replacement list of a group is exactly the observed servers of the
\* group that are not scheduled for removal and whose image id is non-null and
\* differs from the resolved image id of the group.
C3_ReplacementsExact ==
    Planned =>
        \A g \in DeployedGroups :
            LET removed == IF increments[g] < 0 THEN Range(removals[g]) ELSE {}
            IN  Range(replacements[g]) =
                    { s \in Range(servers_by_group[g]) :
                        /\ s \notin removed
                        /\ s.image # None
                        /\ s.image # ResolveImage(config, config.groups[g]) }

\* C4: for a group with a negative increment the removal list is the |increment|
\* observed servers of the group with the smallest names, in ascending name
\* order, whatever the order of the cloud listing.
C4_RemovalsSmallestNames ==
    Planned =>
        \A g \in DeployedGroups :
            increments[g] < 0 =>
                /\ Len(removals[g]) = 0 - increments[g]
                /\ \A a, b \in 1 .. Len(removals[g]) :
                       a < b => StrLess(removals[g][a].name, removals[g][b].name)
                /\ \A s \in Range(servers_by_group[g]) \ Range(removals[g]) :
                       \A r \in Range(removals[g]) : StrLess(r.name, s.name)

\* C5: bucketing assigns every live server to at most one group of the
\* deployment, also when one group identifier is a prefix of another.
C5_BucketingDisjoint ==
    Planned =>
        \A g, h \in DeployedGroups :
            g # h => Range(servers_by_group[g]) \cap Range(servers_by_group[h]) = {}

\* C6: on a dry run synchronize_infrastructure issues no create_server, no
\* delete_server and no SSH connection, and leaves the set of servers in the
\* cloud unchanged.
C6_DryRunFrame == [][dry_run => (calls' = <<>> /\ cloud' = cloud)]_mainVars

\* C6 witness: a dry run has returned with a plan that adds, removes and replaces.
C6_Witness ==
    /\ dry_run
    /\ Returned
    /\ \E g \in DeployedGroups : increments[g] > 0
    /\ \E g \in DeployedGroups : increments[g] < 0
    /\ \E g \in DeployedGroups : replacements[g] # <<>>

\* C9: for a desired state with a capacity conflict the reconciler aborts before
\* anything else: it issues no create_server and no delete_server.
C9_AbortOnConflict ==
    CapacityConflict(config.groups, config.nodes_inventory) =>
        \A k \in 1 .. Len(calls) : ~IsMutation(calls[k])

\* the planned actions of group g have all been attempted
Attempted(g) ==
    /\ increments[g] > 0 =>
           Cardinality({k \in 1 .. Len(calls) :
               calls[k].op = "create_server" /\ calls[k].group = g}) >= increments[g]
    /\ \A s \in (IF increments[g] < 0 THEN Range(removals[g]) ELSE {})
                \cup Range(replacements[g]) :
           \E k \in 1 .. Len(calls) : calls[k].op # "create_server" /\ calls[k].id = s.id

\* the group whose action raised
FailedGroup ==
    IF gi <= Len(config.deployment) THEN config.deployment[gi] ELSE Flagged[ri].group

\* C10: a failure on one server during apply does not abort the run: every
\* planned action of every other group is still attempted.
C10_FailureIsolated ==
    pc = "raised" => \A g \in DeployedGroups \ {FailedGroup} : Attempted(g)

\* C11: a flagged server is replaced by deleting it first and creating the new
\* server of the same name only once the old one is absent from the cloud; two
\* servers with the same name never coexist.
C11_DeleteBeforeCreate ==
    /\ pc = "replace_create" =>
           ~\E s \in cloud : s.name = Flagged[ri].server.name
    /\ \A a, b \in cloud : a.name = b.name => a.id = b.id

\* C24: a server created during top-up that reaches ERROR instead of ACTIVE is
\* deleted and the run goes on: once the run has returned, no server created in
\* it is left in status ERROR.
C24_NoErrorServerLeft ==
    (Returned /\ ~dry_run) =>
        \A s \in cloud : s.id >= FirstNewId => s.status # "ERROR"

\* the name has the form vgcnbwc-<group>-NNNN
WellFormedName(name, group) ==
    LET prefix == PREFIX \o group \o <<"-">>
    IN  /\ StartsWith(name, prefix)
        /\ Len(name) = Len(prefix) + 4
        /\ \A k \in Len(prefix) + 1 .. Len(name) :
               \E d \in 1 .. Len(Digits) : Digits[d] = name[k]

\* C25: every name allocated for a create during top-up has the form
\* vgcnbwc-<group>-NNNN, differs from every name allocated before it in the run
\* and from the name of every server in the cloud at the moment of the create.
C25_AllocatedNamesFresh ==
    [][(pc = "apply" /\ Len(calls') = Len(calls) + 1
            /\ calls'[Len(calls')].op = "create_server") =>
        LET call == calls'[Len(calls')]
        IN  /\ WellFormedName(call.name, call.group)
            /\ \A k \in 1 .. Len(calls) :
                   calls[k].op = "create_server" => calls[k].name # call.name
            /\ \A s \in cloud : s.name # call.name]_mainVars

\* the group whose name a request bears, and its place in the document
GroupOfCall(call) == CHOOSE g \in GroupIds : WellFormedName(call.name, g)
PlaceOf(group) == CHOOSE k \in 1 .. Len(config.deployment) : config.deployment[k] = group

\* every server listed is taken for a member of the group of its name only
NamesApart ==
    \A k \in 1 .. Len(servers) : \A g \in DeployedGroups :
        InGroup(servers[k], g) => WellFormedName(servers[k].name, g)

\* C28: the groups are processed in the key order of the document, and the
\* creates, removals and image replacements of a group are all issued before any
\* request for a group that follows it.
C28_GroupByGroup ==
    (Planned /\ NamesApart) =>
        \A a, b \in 1 .. Len(calls) :
            (a < b /\ IsMutation(calls[a]) /\ IsMutation(calls[b])) =>
                PlaceOf(GroupOfCall(calls[a])) <= PlaceOf(GroupOfCall(calls[b]))

\* the servers listed that bear a name of the group
MembersOf(group) == {k \in 1 .. Len(servers) : WellFormedName(servers[k].name, group)}

\* the fleet listed agrees with the desired state: every server is of a group
\* of the document and runs the image wanted, and every group has its
\* effective count of servers
Agrees ==
    /\ \A k \in 1 .. Len(servers) :
        /\ \E g \in DeployedGroups : k \in MembersOf(g)
        /\ servers[k].status = "ACTIVE"
        /\ servers[k].image = IMAGE
    /\ \A g \in DeployedGroups :
        Cardinality(MembersOf(g)) = EffectiveCount(config.groups[g])

\* C29: on a fleet that agrees with the desired state, a run that is not a dry
\* run issues no create_server and no delete_server.
C29_Idempotent ==
    (Planned /\ ~dry_run /\ Agrees) =>
        \A k \in 1 .. Len(calls) : ~IsMutation(calls[k])

\* the plan is the one that follows from the listing
PlanOfListing ==
    /\ servers_by_group = ServersByGroup(config, servers)
    /\ increments = Increments(config, servers_by_group)
    /\ removals = Removals(servers_by_group, increments)
    /\ replacements = Replacements(config, servers_by_group, increments)
    /\ \A g \in DOMAIN removals :
           Range(removals[g]) \cap Range(replacements[g]) = {}

\* C37: for every group the servers planned for removal and those planned for
\* replacement are disjoint, whatever the increment; the plan is computed from
\* one listing of the servers, taken before any request that changes the cloud,
\* and is not computed again while it is applied.
C37_PlanOnceDisjoint ==
    /\ [](pc = "start" => calls = <<>>)
    /\ [](Planned => PlanOfListing)
    /\ [][Planned => UNCHANGED planVars]_mainVars

\* a group with a server to remove and another to replace, the run under way
C37_Witness ==
    /\ \E g \in DOMAIN removals : removals[g] # <<>> /\ replacements[g] # <<>>
    /\ \E k \in 1 .. Len(calls) : IsMutation(calls[k])

\* C38: in one run delete_server is issued at most once per server, and
\* releasing the name of a removed server from server_names never fails for the
\* name having been released before.
C38_DeleteOncePerServer ==
    /\ \A a, b \in 1 .. Len(calls) :
           (a < b /\ calls[a].op = "delete_server" /\ calls[b].op = "delete_server") =>
               calls[a].id # calls[b].id
    /\ raised # "KeyError"

\* the name starts with vgcnbwc-<g> for a group g of the document
OwnedName(name) == \E g \in DeployedGroups : StartsWith(name, PREFIX \o g)

C40_WithinInventory ==
    (/\ Planned
     /\ ~CapacityConflict(config.groups, config.nodes_inventory)
     /\ Len(servers) <= config.nodes_inventory[Flavor]
     /\ \A k \in 1 .. Len(servers) : \E g \in DeployedGroups : Owns(g, servers[k]))
        => Cardinality(cloud) <= config.nodes_inventory[Flavor]

(***************************************************************************)
(* compute_increment on every bounded input.                               *)
(***************************************************************************)
GroupConfigs ==
    [count : 0 .. MaxCount, start : Days \cup {NoDate}, end : Days \cup {NoDate}]

IncIdle ==
    /\ inc_config = [count |-> 0, start |-> NoDate, end |-> NoDate]
    /\ inc_status = 0
    /\ inc_pc = "idle"
    /\ inc_result = 0

IncInit ==
    /\ inc_config \in GroupConfigs
    /\ inc_status \in 0 .. MaxFleet
    /\ inc_pc = "call"
    /\ inc_result = 0

ComputeIncrement ==
    /\ inc_pc = "call"
    /\ inc_result' = compute_increment(inc_config, inc_status)
    /\ inc_pc' = "return"
    /\ UNCHANGED <<inc_config, inc_status, mainVars, ccVars, cmdVars, gtVars, auxVars>>

\* C2: compute_increment returns count - k when start <= today <= end, a
\* missing start or end being replaced by today, and -k otherwise.
C2_IncrementCorrect ==
    inc_pc = "return" =>
        LET startOk == inc_config.start = NoDate \/ inc_config.start <= Today
            endOk == inc_config.end = NoDate \/ inc_config.end >= Today
        IN  /\ (startOk /\ endOk) => inc_result = inc_config.count - inc_status
            /\ ~(startOk /\ endOk) => inc_result = 0 - inc_status

\* C2 witness: a group with only a past start, hence in its window, with one
\* server observed and two wanted, for which compute_increment returned 1.
C2_Witness ==
    /\ inc_pc = "return"
    /\ inc_config.start = Today - 1
    /\ inc_config.end = NoDate
    /\ inc_config.count = 2
    /\ inc_status = 1
    /\ inc_result = 1

(***************************************************************************)
(* check_conflicts(file_path), on the document the file holds.             *)
(***************************************************************************)
TRAINING == <<"t", "r", "a", "i", "n", "i", "n", "g", "-">>
TrainingA == TRAINING \o <<"a">>
TrainingB == TRAINING \o <<"b">>
Gpu == <<"g", "p", "u">>

\* df[df["node"].str.startswith("training-")]
IsTraining(node) == StartsWith(node, TRAINING)

\* rows of training_df after explode: the days of pd.date_range(start, end)
DateRange(group_config) ==
    {d \in Days : group_config.start <= d /\ d <= group_config.end}

check_conflicts(groups, nodes_inventory) ==
    LET training == {g \in DOMAIN groups : IsTraining(g)}
        not_training == DOMAIN groups \ training
        \* training_df.groupby(["flavor", "date"]).agg({"count": "sum", ...})
        training_rows ==
            { <<f, d>> \in (DOMAIN nodes_inventory) \X Days :
                \E g \in training : groups[g].flavor = f /\ d \in DateRange(groups[g]) }
        training_count(f, d) ==
            SumOver([g \in training |->
                        IF groups[g].flavor = f /\ d \in DateRange(groups[g])
                        THEN groups[g].count ELSE 0], training)
        \* not_training_df.groupby("flavor").agg({"count": "sum", ...})
        not_training_count(f) ==
            SumOver([g \in not_training |->
                        IF groups[g].flavor = f THEN groups[g].count ELSE 0],
                    not_training)
        conflict ==
            \/ \E r \in training_rows : training_count(r[1], r[2]) > nodes_inventory[r[1]]
            \/ \E f \in DOMAIN nodes_inventory : not_training_count(f) > nodes_inventory[f]
    IN  IF DOMAIN groups = {} THEN "Error"            \* df["flavor"]: KeyError
        ELSE IF \E g \in training : groups[g].start = NoDate \/ groups[g].end = NoDate
        THEN "Error"                                  \* pd.date_range(start, end)
        ELSE IF ~conflict THEN "True"
        ELSE IF training_rows = {} THEN "Error"       \* row["date"]: KeyError
        ELSE "Conflicts"                              \* ValueError("Conflicts found: ...")

CcWindows ==
    { [start |-> NoDate, end |-> NoDate],
      [start |-> Today - 1, end |-> Today - 1],
      [start |-> Today + 1, end |-> Today + 1],
      [start |-> Today - 1, end |-> Today + 1],
      [start |-> Today - 1, end |-> NoDate] }

\* a group of the document: any count, any of the windows; a training group
\* carries both dates, as in the repository's resources.yaml
CcGroupConfigs(node) ==
    { [count |-> c, flavor |-> Flavor, start |-> w.start, end |-> w.end] :
        c \in 0 .. MaxCount,
        w \in {x \in CcWindows :
                  IsTraining(node) => (x.start # NoDate /\ x.end # NoDate)} }

CcGroupIds == {Compute, Gpu, TrainingA, TrainingB}

CcDeployments(ids) ==
    {dep \in [ids -> CcGroupConfigs(Compute)] : \A g \in ids : dep[g] \in CcGroupConfigs(g)}

\* the documents check_conflicts is called on: a deployment that is not empty
CcData ==
    UNION { [ deployment : CcDeployments(ids),
              nodes_inventory : {[f \in {Flavor} |-> n] : n \in 1 .. MaxInventory} ] :
            ids \in SUBSET CcGroupIds \ {{}} }

CcIdle ==
    /\ cc_data = [deployment |-> <<>>, nodes_inventory |-> <<>>]
    /\ cc_pc = "idle"
    /\ cc_result = None

CcInit ==
    /\ cc_data \in CcData
    /\ cc_pc = "call"
    /\ cc_result = None

CheckConflicts ==
    /\ cc_pc = "call"
    /\ cc_result' = check_conflicts(cc_data.deployment, cc_data.nodes_inventory)
    /\ cc_pc' = "return"
    /\ UNCHANGED <<cc_data, mainVars, incVars, cmdVars, gtVars, auxVars>>

\* C7: check_conflicts raises on every desired state in which, for some flavor
\* and some day, the undated groups plus the dated groups whose window contains
\* the day request more servers than nodes_inventory allows.
C7_RejectsEveryConflict ==
    (cc_pc = "return" /\ CapacityConflict(cc_data.deployment, cc_data.nodes_inventory))
        => cc_result # "True"

\* C8: check_conflicts returns True for every desired state in which no flavor
\* and day exceeds the inventory, a group being dated iff it has a start or an
\* end, whatever its identifier.
C8_AcceptsEveryValid ==
    (cc_pc = "return" /\ ~CapacityConflict(cc_data.deployment, cc_data.nodes_inventory))
        => cc_result = "True"

(***************************************************************************)
(* Byte strings and text.  A bytes or str object is a sequence of           *)
(* one-character strings tagged with its type; xFF stands for a byte that   *)
(* is not valid UTF-8.                                                      *)
(***************************************************************************)
NL == "\n"
SP == " "
xFF == "xFF"
Whitespace == {SP, NL}

Bytes(val) == [type |-> "bytes", val |-> val]
Str(val) == [type |-> "str", val |-> val]

\* bytes.decode("utf-8")
Decode(b) ==
    IF \E k \in 1 .. Len(b) : b[k] = xFF
    THEN [type |-> "UnicodeDecodeError", val |-> <<>>]
    ELSE Str(b)

\* needle in hay, both of one type
Contains(hay, needle) ==
    \E k \in 0 .. Len(hay) - Len(needle) : SubSeq(hay, k + 1, k + Len(needle)) = needle

\* iterating a stream: its lines, each with its line feed
RECURSIVE LinesOf(_)
LinesOf(b) ==
    IF b = <<>> THEN <<>>
    ELSE LET ends == {k \in 1 .. Len(b) : b[k] = NL}
             cut == IF ends = {} THEN Len(b)
                    ELSE CHOOSE k \in ends : \A j \in ends : k <= j
         IN  <<SubSeq(b, 1, cut)>> \o LinesOf(SubSeq(b, cut + 1, Len(b)))

RECURSIVE Flatten(_)
Flatten(ss) == IF ss = <<>> THEN <<>> ELSE Head(ss) \o Flatten(Tail(ss))

\* str.strip()
RECURSIVE Strip(_)
Strip(s) ==
    IF s = <<>> THEN s
    ELSE IF Head(s) \in Whitespace THEN Strip(Tail(s))
    ELSE IF s[Len(s)] \in Whitespace THEN Strip(SubSeq(s, 1, Len(s) - 1))
    ELSE s

\* str.split(sep) for a one-character sep
RECURSIVE SplitOn(_, _)
SplitOn(s, sep) ==
    LET at == {k \in 1 .. Len(s) : s[k] = sep}
    IN  IF at = {} THEN <<s>>
        ELSE LET cut == CHOOSE k \in at : \A j \in at : k <= j
             IN  <<SubSeq(s, 1, cut - 1)>> \o SplitOn(SubSeq(s, cut + 1, Len(s)), sep)

\* len(x.split()): the number of whitespace-delimited fields
NumFields(x) ==
    Cardinality({k \in 1 .. Len(x) :
        x[k] \notin Whitespace /\ (k = 1 \/ x[k - 1] \in Whitespace)})

(***************************************************************************)
(* print_stream(stream, print_function, save=True) with the print function  *)
(* remote_command passes: logging.debug(line.decode("utf-8")).              *)
(***************************************************************************)
print_stream(stream) ==
    LET lines == LinesOf(stream)
    IN  IF \E k \in 1 .. Len(lines) : Decode(lines[k]).type = "UnicodeDecodeError"
        THEN [exc |-> "UnicodeDecodeError", val |-> <<>>]
        ELSE [exc |-> None, val |-> Flatten(lines)]

(***************************************************************************)
(* remote_command(command, client, log), out what the command wrote and     *)
(* its exit code.  The result names the exception raised (None: returned)   *)
(* and the values returned or attached to the exception.                    *)
(***************************************************************************)
Raises(exc) == [exc |-> exc, stdout |-> <<>>, stderr |-> <<>>, exit_code |-> 0]

remote_command(out, log) ==
    LET stdout == IF log THEN print_stream(out.stdout)
                  ELSE [exc |-> None, val |-> out.stdout]
        stderr == IF log THEN print_stream(out.stderr)
                  ELSE [exc |-> None, val |-> out.stderr]
    IN  IF stdout.exc # None THEN Raises(stdout.exc)
        ELSE IF stderr.exc # None THEN Raises(stderr.exc)
        ELSE IF out.exit_code # 0
        THEN [exc |-> "RemoteCommandError", stdout |-> stdout.val,
              stderr |-> stderr.val, exit_code |-> out.exit_code]
        ELSE [exc |-> None, stdout |-> stdout.val, stderr |-> stderr.val,
              exit_code |-> 0]

(***************************************************************************)
(* condor_drain(client): the exception raised, or None.                     *)
(***************************************************************************)
\* b"Sent request to drain"
SentRequestToDrain ==
    <<"S", "e", "n", "t", " ", "r", "e", "q", "u", "e", "s", "t", " ", "t",
      "o", " ", "d", "r", "a", "i", "n">>

\* b"Draining already in progress"
DrainingAlreadyInProgress ==
    <<"D", "r", "a", "i", "n", "i", "n", "g", " ", "a", "l", "r", "e", "a",
      "d", "y", " ", "i", "n", " ", "p", "r", "o", "g", "r", "e", "s", "s">>

\* b"Can't find address"
CantFindAddress ==
    <<"C", "a", "n", "'", "t", " ", "f", "i", "n", "d", " ", "a", "d", "d",
      "r", "e", "s", "s">>

condor_drain(out) ==
    LET r == remote_command(out, FALSE)
        stdout == IF r.exc = None THEN Bytes(r.stdout) ELSE Decode(r.stdout)
        stderr == IF r.exc = None THEN Bytes(r.stderr) ELSE Decode(r.stderr)
    IN  IF stdout.type = "UnicodeDecodeError" \/ stderr.type = "UnicodeDecodeError"
        THEN "UnicodeDecodeError"
        \* a bytes pattern is searched in a str
        ELSE IF stdout.type # "bytes" \/ stderr.type # "bytes" THEN "TypeError"
        ELSE IF \/ Contains(stdout.val, SentRequestToDrain)
                \/ Contains(stderr.val, DrainingAlreadyInProgress)
                \/ Contains(stderr.val, CantFindAddress)
        THEN None
        ELSE "RuntimeError"

(***************************************************************************)
(* condor_active(client): the exception raised (None: returned) and the     *)
(* value returned.                                                          *)
(***************************************************************************)
\* the length of the list of x.split()[4], [] on an IndexError
CondorStatuses(text) ==
    LET lines == SplitOn(Strip(text), NL)
    IN  IF \E k \in 1 .. Len(lines) : NumFields(lines[k]) < 5 THEN 0 ELSE Len(lines)

condor_active(out) ==
    LET r == remote_command(out, FALSE)
        stdout == Decode(r.stdout)
    IN  IF stdout.type = "UnicodeDecodeError"
        THEN [exc |-> "UnicodeDecodeError", active |-> FALSE]
        ELSE [exc |-> None, active |-> CondorStatuses(stdout.val) > 1]

(***************************************************************************)
(* One remote command, on every bounded output, run by remote_command,      *)
(* condor_drain or condor_active.                                           *)
(***************************************************************************)
MaxLines == 2
MaxExitCode == 1

\* a line of condor_status, and one cut short of its activity column
SlotLine ==
    <<"s", "l", "o", "t", "1", "@", "h", " ", "L", "I", "N", "U", "X", " ",
      "X", "8", "6", "_", "6", "4", " ", "C", "l", "a", "i", "m", "e", "d",
      " ", "I", "d", "l", "e", " ", "0", ".", "0", "0", "0", " ", "4", "0",
      "9", "6", " ", "3", "+", "1", "7", ":", "3", "2", ":", "5", "8">>

ShortSlotLine ==
    <<"s", "l", "o", "t", "1", "@", "h", " ", "L", "I", "N", "U", "X", " ",
      "X", "8", "6", "_", "6", "4", " ", "C", "l", "a", "i", "m", "e", "d">>

\* b"Sent request to drain condor_worker"
SentOutput ==
    <<"S", "e", "n", "t", " ", "r", "e", "q", "u", "e", "s", "t", " ", "t",
      "o", " ", "d", "r", "a", "i", "n", " ", "c", "o", "n", "d", "o", "r",
      "_", "w", "o", "r", "k", "e", "r">>

\* b"ERROR: Draining already in progress"
AlreadyOutput ==
    <<"E", "R", "R", "O", "R", ":", " ", "D", "r", "a", "i", "n", "i", "n",
      "g", " ", "a", "l", "r", "e", "a", "d", "y", " ", "i", "n", " ", "p",
      "r", "o", "g", "r", "e", "s", "s">>

\* b"ERROR: Can't find address for startd 198.51.100.2"
CantFindOutput ==
    <<"E", "R", "R", "O", "R", ":", " ", "C", "a", "n", "'", "t", " ", "f",
      "i", "n", "d", " ", "a", "d", "d", "r", "e", "s", "s", " ", "f", "o",
      "r", " ", "s", "t", "a", "r", "t", "d", " ", "1", "9", "8", ".", "5",
      "1", ".", "1", "0", "0", ".", "2">>

\* b"ERROR: unknown host other"
UnknownHostOutput ==
    <<"E", "R", "R", "O", "R", ":", " ", "u", "n", "k", "n", "o", "w", "n",
      " ", "h", "o", "s", "t", " ", "o", "t", "h", "e", "r">>

RECURSIVE JoinLines(_)
JoinLines(lines) ==
    IF lines = <<>> THEN <<>>
    ELSE IF Len(lines) = 1 THEN Head(lines)
    ELSE Head(lines) \o <<NL>> \o JoinLines(Tail(lines))

StatusOutputs ==
    LET texts == {JoinLines(lines) :
                     lines \in UNION {[1 .. n -> {SlotLine, ShortSlotLine}] :
                                         n \in 0 .. MaxLines}}
    IN  texts \cup {t \o <<NL>> : t \in texts \ {<<>>}}

Stdouts == StatusOutputs \cup {SentOutput, <<xFF>>}
Stderrs == {<<>>, AlreadyOutput, CantFindOutput, UnknownHostOutput, <<xFF>>}
ExitCodes == 0 .. MaxExitCode

CmdOut == [stdout |-> cmd_stdout, stderr |-> cmd_stderr, exit_code |-> cmd_exit_code]

CmdResult(fn, exc, stdout, stderr, exit_code, active) ==
    [fn |-> fn, exc |-> exc, stdout |-> stdout, stderr |-> stderr,
     exit_code |-> exit_code, active |-> active]

CmdIdle ==
    /\ cmd_stdout = <<>>
    /\ cmd_stderr = <<>>
    /\ cmd_exit_code = 0
    /\ cmd_log = FALSE
    /\ cmd_pc = "idle"
    /\ cmd_result = CmdResult(None, None, <<>>, <<>>, 0, FALSE)

CmdInit ==
    /\ cmd_stdout \in Stdouts
    /\ cmd_stderr \in Stderrs
    /\ cmd_exit_code \in ExitCodes
    /\ cmd_log \in BOOLEAN
    /\ cmd_pc = "call"
    /\ cmd_result = CmdResult(None, None, <<>>, <<>>, 0, FALSE)

RemoteCommand ==
    /\ cmd_pc = "call"
    /\ LET r == remote_command(CmdOut, cmd_log)
       IN  cmd_result' = CmdResult("remote_command", r.exc, r.stdout, r.stderr,
                                   r.exit_code, FALSE)
    /\ cmd_pc' = "done"
    /\ UNCHANGED <<cmd_stdout, cmd_stderr, cmd_exit_code, cmd_log,
                   mainVars, incVars, ccVars, gtVars, auxVars>>

CondorDrain ==
    /\ cmd_pc = "call"
    /\ cmd_result' = CmdResult("condor_drain", condor_drain(CmdOut), <<>>, <<>>, 0, FALSE)
    /\ cmd_pc' = "done"
    /\ UNCHANGED <<cmd_stdout, cmd_stderr, cmd_exit_code, cmd_log,
                   mainVars, incVars, ccVars, gtVars, auxVars>>

CondorActive ==
    /\ cmd_pc = "call"
    /\ LET r == condor_active(CmdOut)
       IN  cmd_result' = CmdResult("condor_active", r.exc, <<>>, <<>>, 0, r.active)
    /\ cmd_pc' = "done"
    /\ UNCHANGED <<cmd_stdout, cmd_stderr, cmd_exit_code, cmd_log,
                   mainVars, incVars, ccVars, gtVars, auxVars>>

CmdNext ==
    \/ RemoteCommand
    \/ CondorDrain
    \/ CondorActive

Done(fn) == cmd_pc = "done" /\ cmd_result.fn = fn

\* the output is text: every byte of it decodes
IsText(b) == \A k \in 1 .. Len(b) : b[k] # xFF

\* the output of condor_drain is one of the three the controller accepts
DrainAccepted ==
    \/ Contains(cmd_stdout, SentRequestToDrain)
    \/ Contains(cmd_stderr, DrainingAlreadyInProgress)
    \/ Contains(cmd_stderr, CantFindAddress)

\* the number of slot lines: the lines grep slot.*@host lets through
SlotLines(b) ==
    LET lines == LinesOf(b)
    IN  Cardinality({k \in 1 .. Len(lines) : Contains(lines[k], <<"s", "l", "o", "t">>)})

\* C18: condor_drain returns normally iff stdout contains "Sent request to
\* drain" or stderr contains "Draining already in progress" or "Can't find
\* address", whatever the exit code, and raises the unexpected-output error
\* otherwise (stated for the outputs that are text).
C18_DrainClassification ==
    (Done("condor_drain") /\ IsText(cmd_stdout) /\ IsText(cmd_stderr)) =>
        cmd_result.exc = (IF DrainAccepted THEN None ELSE "RuntimeError")

\* C19: condor_active returns true iff the output holds more than one slot
\* line, for every exit code, and does not raise (stated for the outputs that
\* are text).
C19_ActiveIffSeveralSlots ==
    (Done("condor_active") /\ IsText(cmd_stdout)) =>
        /\ cmd_result.exc = None
        /\ cmd_result.active <=> SlotLines(cmd_stdout) > 1

\* C20: remote_command returns (stdout, stderr) iff the exit code is zero and
\* raises RemoteCommandError with exactly stdout, stderr and the exit code for
\* every other exit code, with and without logging.
C20_RemoteCommandResult ==
    Done("remote_command") =>
        /\ cmd_result.exc = (IF cmd_exit_code = 0 THEN None ELSE "RemoteCommandError")
        /\ cmd_result.stdout = cmd_stdout
        /\ cmd_result.stderr = cmd_stderr
        /\ cmd_result.exit_code = cmd_exit_code

(***************************************************************************)
(* remove_server, gracefully_terminate and condor_graceful_shutdown, one    *)
(* statement at a time.  Times are in seconds.                              *)
(***************************************************************************)
MaxIterations == 2

\* timeout: int = 300, interval: int = 10
DEFAULT_TIMEOUT == 300
INTERVAL == 10

Timeouts == {k * INTERVAL : k \in (0 - 1) .. MaxIterations} \cup {DEFAULT_TIMEOUT}

\* an iteration of the drain loop lasts at least interval, longer when the
\* remote commands are slow
IterationTimes == {INTERVAL, 2 * INTERVAL}

GtStatuses == {"ACTIVE", "ERROR", "BUILD"}

GtServer(status) == [id |-> 1, name |-> NameOf(PREFIX \o Compute, 0), status |-> status]

Out(stdout, stderr, exit_code) ==
    [stdout |-> stdout, stderr |-> stderr, exit_code |-> exit_code]

\* what condor_drain may answer
DrainOuts ==
    { Out(SentOutput, <<>>, 0),
      Out(<<>>, AlreadyOutput, 0),
      Out(<<>>, AlreadyOutput, 1),
      Out(<<>>, CantFindOutput, 1),
      Out(<<>>, UnknownHostOutput, 1),
      Out(<<>>, <<>>, 0) }

\* what condor_status | grep may answer
StatusOuts ==
    { Out(SlotLine \o <<NL>> \o SlotLine \o <<NL>>, <<>>, 0),
      Out(SlotLine \o <<NL>>, <<>>, 0),
      Out(<<>>, <<>>, 1) }

\* what condor_off may answer
OffOuts == { Out(<<>>, <<>>, 0), Out(<<>>, <<>>, 1) }

\* condor_off(client): the exception raised, or None
condor_off(out) == remote_command(out, FALSE).exc

\* shutdown_process.join() of a process that was run(), never started: the
\* assertion of join, or the attribute error behind it when assertions are off
JoinErrors == {"AssertionError", "AttributeError"}

\* the key a host presents: one of config["pubkeys"], or another
HostKeys == {"in_pubkeys", "unknown"}

\* line 442: client.set_missing_host_key_policy(AutoAddPolicy), on a client
\* that knows no host key: the exception the policy raises for the key, None
\* when it accepts it.  AutoAddPolicy adds whatever key is presented.
missing_host_key(key) == None

GtInit ==
    /\ gt_entry \in {"remove_server", "gracefully_terminate", "condor_graceful_shutdown"}
    /\ gt_server \in {GtServer(status) :
           status \in IF gt_entry = "condor_graceful_shutdown" THEN {"ACTIVE"}
                      ELSE GtStatuses}
    /\ gt_graceful \in IF gt_entry = "remove_server" THEN BOOLEAN ELSE {TRUE}
    /\ gt_timeout \in IF gt_entry = "remove_server" THEN {DEFAULT_TIMEOUT} ELSE Timeouts
    /\ gt_host_key \in HostKeys
    /\ gt_pc = IF gt_entry = "condor_graceful_shutdown" THEN "loop" ELSE gt_entry
    /\ gt_exc = None
    /\ gt_active = TRUE
    /\ gt_elapsed = 0
    /\ gt_shutdown = IF gt_entry = "condor_graceful_shutdown" THEN "running" ELSE "none"
    /\ gt_seen = {}
    /\ gt_calls = <<>>

gtArgs == <<gt_entry, gt_server, gt_graceful, gt_timeout, gt_host_key>>
gtOthers == <<mainVars, incVars, ccVars, cmdVars, auxVars>>

\* an exception leaves the statement at hand: remove_server catches
\* NoValidConnectionsError and logs a warning, everything else propagates
GtRaise(exc) ==
    IF gt_entry = "remove_server" /\ gt_graceful /\ exc = "NoValidConnectionsError"
    THEN gt_pc' = "returned" /\ gt_exc' = None
    ELSE gt_pc' = "raised" /\ gt_exc' = exc

\* a remote command that never returns
GtHang ==
    /\ gt_pc' = "hung"
    /\ gt_shutdown' = "hung"
    /\ UNCHANGED <<gt_exc, gt_active, gt_elapsed, gt_seen>>

\* lines 541-551: if graceful
RsEntryAlwaysGraceful(graceful) == "gracefully_terminate"

RsEntry(graceful) == IF graceful THEN "gracefully_terminate" ELSE "delete_and_wait"

GtRemoveServer ==
    /\ gt_pc = "remove_server"
    /\ gt_pc' = RsEntry(gt_graceful)
    /\ UNCHANGED <<gtArgs, gt_exc, gt_active, gt_elapsed, gt_shutdown, gt_seen, gt_calls,
                   gtOthers>>

\* line 438: if server["status"] == "ACTIVE"
GtAfterStatusNoShutdown(server) == "delete_and_wait"

GtAfterStatus(server) ==
    IF server.status = "ACTIVE" THEN "get_ssh_access_address" ELSE "delete_and_wait"

GtGracefullyTerminate ==
    /\ gt_pc = "gracefully_terminate"
    /\ gt_pc' = GtAfterStatus(gt_server)
    /\ UNCHANGED <<gtArgs, gt_exc, gt_active, gt_elapsed, gt_shutdown, gt_seen, gt_calls,
                   gtOthers>>

\* line 444: ip = get_ssh_access_address(client, server)
GtGetSshAccessAddress ==
    /\ gt_pc = "get_ssh_access_address"
    /\ gt_calls' = Append(gt_calls, "ssh_connect")
    /\ \E reachable \in BOOLEAN :
        IF reachable /\ missing_host_key(gt_host_key) = None
        THEN gt_pc' = "connect" /\ UNCHANGED <<gt_exc, gt_seen>>
        ELSE GtRaise("RuntimeError") /\ gt_seen' = gt_seen \cup {"ssh_unreachable"}
    /\ UNCHANGED <<gtArgs, gt_active, gt_elapsed, gt_shutdown, gtOthers>>

\* lines 446-450: client.connect(ip, ...), then shutdown_process.run() enters
\* condor_graceful_shutdown in this process
GtConnect ==
    /\ gt_pc = "connect"
    /\ gt_calls' = Append(gt_calls, "ssh_connect")
    /\ \E o \in {None, "NoValidConnectionsError", "SSHException",
                 missing_host_key(gt_host_key)} :
        IF o = None
        THEN /\ gt_pc' = "loop"
             /\ gt_shutdown' = "running"
             /\ UNCHANGED gt_exc
        ELSE GtRaise(o) /\ UNCHANGED gt_shutdown
    /\ UNCHANGED <<gtArgs, gt_active, gt_elapsed, gt_seen, gtOthers>>

\* condor_off whatever the last probe said
AfterLoopAlwaysOff(active) == None

\* lines 407-413: after the loop
AfterLoop(active) == IF active THEN "CondorShutdownException" ELSE None

\* lines 401, 407-413: the loop test, and what follows the loop
GtLoop ==
    /\ gt_pc = "loop"
    /\ IF gt_active /\ gt_elapsed < gt_timeout
       THEN gt_pc' = "condor_drain" /\ UNCHANGED <<gt_exc, gt_shutdown>>
       ELSE IF AfterLoop(gt_active) # None
       THEN GtRaise(AfterLoop(gt_active)) /\ gt_shutdown' = "raised"
       ELSE gt_pc' = "condor_off" /\ UNCHANGED <<gt_exc, gt_shutdown>>
    /\ UNCHANGED <<gtArgs, gt_active, gt_elapsed, gt_seen, gt_calls, gtOthers>>

DrainAcceptedOut(out) ==
    \/ Contains(out.stdout, SentRequestToDrain)
    \/ Contains(out.stderr, DrainingAlreadyInProgress)
    \/ Contains(out.stderr, CantFindAddress)

\* line 402: condor_drain(client)
GtCondorDrain ==
    /\ gt_pc = "condor_drain"
    /\ gt_calls' = Append(gt_calls, "condor_drain")
    /\ \/ GtHang
       \/ \E out \in DrainOuts :
            /\ gt_seen' = gt_seen \cup
                   (IF DrainAcceptedOut(out) THEN {} ELSE {"drain_rejected"})
            /\ IF condor_drain(out) = None
               THEN gt_pc' = "condor_active" /\ UNCHANGED <<gt_exc, gt_shutdown>>
               ELSE GtRaise(condor_drain(out)) /\ gt_shutdown' = "raised"
            /\ UNCHANGED <<gt_active, gt_elapsed>>
    /\ UNCHANGED <<gtArgs, gtOthers>>

\* lines 403-405: active = condor_active(client), sleep, current = time.time()
GtCondorActive ==
    /\ gt_pc = "condor_active"
    /\ gt_calls' = Append(gt_calls, "condor_status")
    /\ \/ GtHang
       \/ \E out \in StatusOuts, d \in IterationTimes :
            /\ gt_active' = condor_active(out).active
            /\ gt_seen' = gt_seen \cup
                   {IF condor_active(out).active THEN "probe_true" ELSE "probe_false"}
            /\ gt_elapsed' = gt_elapsed + d
            /\ gt_pc' = "loop"
            /\ UNCHANGED <<gt_exc, gt_shutdown>>
    /\ UNCHANGED <<gtArgs, gtOthers>>

\* line 413: condor_off(client), the last statement of condor_graceful_shutdown
GtCondorOff ==
    /\ gt_pc = "condor_off"
    /\ gt_calls' = Append(gt_calls, "condor_off")
    /\ \/ GtHang
       \/ \E out \in OffOuts :
            /\ IF condor_off(out) = None
               THEN /\ gt_shutdown' = "returned"
                    /\ gt_pc' = IF gt_entry = "condor_graceful_shutdown"
                                THEN "returned" ELSE "join"
                    /\ UNCHANGED gt_exc
               ELSE GtRaise(condor_off(out)) /\ gt_shutdown' = "raised"
            /\ UNCHANGED <<gt_active, gt_elapsed, gt_seen>>
    /\ UNCHANGED <<gtArgs, gtOthers>>

\* line 451: shutdown_process.join(timeout=timeout)
GtJoin ==
    /\ gt_pc = "join"
    /\ \E e \in JoinErrors : GtRaise(e)
    /\ UNCHANGED <<gtArgs, gt_active, gt_elapsed, gt_shutdown, gt_seen, gt_calls,
                   gtOthers>>

\* lines 461, 551: delete_and_wait(server, cloud)
GtDeleteAndWait ==
    /\ gt_pc = "delete_and_wait"
    /\ gt_calls' = Append(gt_calls, "delete_server")
    /\ \E o \in {None, "SDKException", "TypeError"} :
        IF o = None
        THEN gt_pc' = "returned" /\ gt_seen' = gt_seen \cup {"gone"} /\ UNCHANGED gt_exc
        ELSE GtRaise(o) /\ UNCHANGED gt_seen
    /\ UNCHANGED <<gtArgs, gt_active, gt_elapsed, gt_shutdown, gtOthers>>

GtNext ==
    \/ GtRemoveServer
    \/ GtGracefullyTerminate
    \/ GtGetSshAccessAddress
    \/ GtConnect
    \/ GtLoop
    \/ GtCondorDrain
    \/ GtCondorActive
    \/ GtCondorOff
    \/ GtJoin
    \/ GtDeleteAndWait

(***************************************************************************)
(* Claims about graceful termination.                                       *)
(***************************************************************************)
GtTerminal == gt_pc \in {"returned", "raised"}
Issued(op) == \E k \in 1 .. Len(gt_calls) : gt_calls[k] = op
GracefulRun ==
    gt_entry = "gracefully_terminate" \/ (gt_entry = "remove_server" /\ gt_graceful)
ShutdownEnded == gt_shutdown \in {"returned", "raised"}

\* C12: in graceful mode delete_server is issued for an ACTIVE server only after
\* condor_graceful_shutdown has returned: after a condor_active probe returned
\* false and condor_off was issued.
C12_DeleteOnlyAfterShutdown ==
    (GracefulRun /\ gt_server.status = "ACTIVE") =>
        \A k \in 1 .. Len(gt_calls) :
            gt_calls[k] = "delete_server" =>
                /\ gt_shutdown = "returned"
                /\ "probe_false" \in gt_seen
                /\ \E j \in 1 .. k - 1 : gt_calls[j] = "condor_off"

\* C12 witness: graceful termination of an ACTIVE server whose probes said
\* active until the timeout has ended with the shutdown error, the server not
\* deleted.
C12_Witness ==
    /\ GracefulRun
    /\ gt_server.status = "ACTIVE"
    /\ gt_pc = "raised"
    /\ gt_exc = "CondorShutdownException"
    /\ "probe_true" \in gt_seen
    /\ ~Issued("delete_server")

\* C13: condor_graceful_shutdown issues condor_off iff a condor_active probe
\* returned false; when no probe returned false and every condor_drain answered
\* with an accepted output, it raises the shutdown-timeout error and issues no
\* condor_off.
C13_CondorOffIffInactive ==
    ShutdownEnded =>
        /\ Issued("condor_off") <=> "probe_false" \in gt_seen
        /\ ("probe_false" \notin gt_seen /\ "drain_rejected" \notin gt_seen) =>
               /\ gt_exc = "CondorShutdownException"
               /\ ~Issued("condor_off")

\* C14: once condor_graceful_shutdown has returned, gracefully_terminate calls
\* delete_and_wait: delete_server is issued before the call ends.
C14_DeleteAfterShutdown ==
    (GtTerminal /\ gt_entry # "condor_graceful_shutdown" /\ gt_shutdown = "returned") =>
        Issued("delete_server")

\* C15: when the Condor shutdown does not return (a remote command never
\* returns), gracefully_terminate still ends, raising the shutdown-timeout error.
C15_ShutdownDeadline ==
    (gt_entry # "condor_graceful_shutdown" /\ gt_shutdown = "hung")
        ~> (gt_pc = "raised" /\ gt_exc = "CondorShutdownException")

\* C16: when graceful is true and no address of the server accepts an SSH
\* connection, remove_server falls back to delete_and_wait: delete_server has
\* been issued when remove_server ends.
C16_UnreachableFallsBack ==
    (GtTerminal /\ gt_entry = "remove_server" /\ gt_graceful
        /\ "ssh_unreachable" \in gt_seen) =>
        Issued("delete_server")

\* C17: remove_server opens an SSH connection or runs a Condor command only if
\* graceful is true and the server is ACTIVE; otherwise the only request it
\* issues is delete_server.
C17_SshOnlyGracefulActive ==
    gt_entry = "remove_server" =>
        /\ (\E k \in 1 .. Len(gt_calls) : gt_calls[k] # "delete_server") =>
               (gt_graceful /\ gt_server.status = "ACTIVE")
        /\ (GtTerminal /\ ~(gt_graceful /\ gt_server.status = "ACTIVE")) =>
               gt_calls = <<"delete_server">>

\* C17 witness: remove_server in graceful mode on a server in ERROR has returned
\* after delete_server alone.
C17_Witness ==
    /\ gt_entry = "remove_server"
    /\ gt_graceful
    /\ gt_server.status = "ERROR"
    /\ gt_pc = "returned"
    /\ gt_calls = <<"delete_server">>

IsCondorCommand(op) == op \in {"condor_drain", "condor_status", "condor_off"}

\* C30: the SSH client accepts only the host keys of pubkeys: when the server
\* presents another key the connection is aborted, and no Condor command is run
\* on the server.
C30_OnlyKnownHostKeys ==
    (GracefulRun /\ gt_host_key = "unknown") =>
        \A k \in 1 .. Len(gt_calls) : ~IsCondorCommand(gt_calls[k])

\* the order of the remote commands issued so far
DrainProbeOrder ==
    \A k \in 1 .. Len(gt_calls) :
        /\ (gt_calls[k] = "condor_drain" /\ k < Len(gt_calls)) =>
               gt_calls[k + 1] = "condor_status"
        /\ gt_calls[k] = "condor_status" => (k > 1 /\ gt_calls[k - 1] = "condor_drain")
        /\ gt_calls[k] = "condor_off" =>
               /\ k = Len(gt_calls)
               /\ \E j \in 1 .. k - 1 : gt_calls[j] = "condor_drain"

\* C36: every iteration of the loop of condor_graceful_shutdown issues
\* condor_drain and then one condor_active probe; once a probe has answered
\* inactive no condor_drain is issued; every condor_off comes after a
\* condor_drain; and the call ends unless a remote command never returns.
C36_DrainThenProbe ==
    /\ []DrainProbeOrder
    /\ [][~gt_active => (gt_pc' # "condor_drain" /\ ~gt_active')]_gtVars
    /\ <>(gt_pc \in {"returned", "raised", "hung"})

\* two iterations, the second probe inactive, then condor_off
C36_Witness ==
    /\ gt_entry = "condor_graceful_shutdown"
    /\ gt_pc = "returned"
    /\ gt_calls = <<"condor_drain", "condor_status", "condor_drain", "condor_status",
                    "condor_off">>

GtIdle ==
    /\ gt_entry = "idle"
    /\ gt_server = GtServer(None)
    /\ gt_graceful = FALSE
    /\ gt_timeout = 0
    /\ gt_host_key = None
    /\ gt_pc = "idle"
    /\ gt_exc = None
    /\ gt_active = FALSE
    /\ gt_elapsed = 0
    /\ gt_shutdown = "none"
    /\ gt_seen = {}
    /\ gt_calls = <<>>

(***************************************************************************)
(* get_ssh_access_address(client, server), one connection at a time.        *)
(***************************************************************************)
MaxAddresses == 3

Addresses == 1 .. MaxAddresses

\* what client.connect(ip, ...) gives: None when it succeeds
ConnectOutcomes == {None, "socket.error", "SSHException"}

baseVars == <<mainVars, incVars, ccVars, cmdVars, gtVars>>
sshOthers == <<baseVars, wfsVars, unVars, arVars>>

SshIdle ==
    /\ ssh_accepts = <<>>
    /\ ssh_left = {}
    /\ ssh_tried = <<>>
    /\ ssh_logged = <<>>
    /\ ssh_pc = "idle"
    /\ ssh_result = None

\* lines 266-270: ips, the set of the addresses of the server
SshInit ==
    /\ \E ips \in SUBSET Addresses : ssh_accepts \in [ips -> ConnectOutcomes]
    /\ ssh_left = DOMAIN ssh_accepts
    /\ ssh_tried = <<>>
    /\ ssh_logged = <<>>
    /\ ssh_pc = "loop"
    /\ ssh_result = None

\* lines 273-288: the handlers of the connection attempt
SshAfterConnectNoCatch(outcome) == IF outcome = None THEN "return" ELSE "raise"

SshAfterConnect(outcome) == IF outcome = None THEN "return" ELSE "next"

\* lines 272-288: one iteration of for ip in ips, a set iterated in any order
SshConnect ==
    /\ ssh_pc = "loop"
    /\ \E ip \in ssh_left :
        LET outcome == ssh_accepts[ip]
            after == SshAfterConnect(outcome)
        IN  /\ ssh_tried' = Append(ssh_tried, ip)
            /\ ssh_left' = ssh_left \ {ip}
            /\ ssh_logged' = IF after = "next" THEN Append(ssh_logged, outcome)
                             ELSE ssh_logged
            /\ ssh_pc' = IF after = "return" THEN "returned"
                         ELSE IF after = "raise" THEN "raised" ELSE "loop"
            /\ ssh_result' = IF after = "return" THEN ip
                             ELSE IF after = "raise" THEN outcome ELSE None
    /\ UNCHANGED <<ssh_accepts, sshOthers>>

\* lines 289-290: the else of the loop
SshExhausted ==
    /\ ssh_pc = "loop"
    /\ ssh_left = {}
    /\ ssh_pc' = "raised"
    /\ ssh_result' = "RuntimeError"
    /\ UNCHANGED <<ssh_accepts, ssh_left, ssh_tried, ssh_logged, sshOthers>>

SshNext ==
    \/ SshConnect
    \/ SshExhausted

SshEnded == ssh_pc \in {"returned", "raised"}
SomeAccepts == \E ip \in DOMAIN ssh_accepts : ssh_accepts[ip] = None

\* C21: get_ssh_access_address returns an address on which the connection
\* succeeded, the last one it tried, when some address of the server accepts
\* the connection; every failed attempt is logged and followed by the next
\* address; it raises the no-access error iff every address failed.
C21_SshAddressSearch ==
    /\ Len(ssh_logged) = Cardinality({k \in 1 .. Len(ssh_tried) :
                                          ssh_accepts[ssh_tried[k]] # None})
    /\ SshEnded =>
        /\ ssh_pc = "returned" <=> SomeAccepts
        /\ ssh_pc = "returned" =>
               /\ ssh_result \in DOMAIN ssh_accepts
               /\ ssh_accepts[ssh_result] = None
               /\ ssh_tried[Len(ssh_tried)] = ssh_result
               /\ \A k \in 1 .. Len(ssh_tried) - 1 : ssh_accepts[ssh_tried[k]] # None
        /\ ssh_pc = "raised" =>
               /\ ssh_result = "RuntimeError"
               /\ {ssh_tried[k] : k \in 1 .. Len(ssh_tried)} = DOMAIN ssh_accepts

\* C21 witness: the first address refused the connection, the second accepted
\* it and was returned, a third address left untried.
C21_Witness ==
    /\ ssh_pc = "returned"
    /\ Len(ssh_tried) = 2
    /\ ssh_accepts[ssh_tried[1]] # None
    /\ ssh_result = ssh_tried[2]
    /\ ssh_left # {}

(***************************************************************************)
(* wait_for_state and delete_and_wait, one statement at a time.  Times are  *)
(* in units of interval.                                                    *)
(***************************************************************************)
MaxPolls == 3

WfsStatuses == {"BUILD", "ACTIVE", "ERROR"}

\* {None}: delete_and_wait; {"ACTIVE", "ERROR"}: create_server
TargetStates == {{None}, {"ACTIVE", "ERROR"}}

\* the statuses find_server may report next: a server that is gone stays gone
CloudNext(status) == IF status = None THEN {None} ELSE WfsStatuses \cup {None}

wfsOthers == <<baseVars, sshVars, unVars, arVars>>
wfsArgs == <<wfs_entry, wfs_target_states, wfs_timeout>>

WfsIdle ==
    /\ wfs_entry = "idle"
    /\ wfs_target_states = {}
    /\ wfs_timeout = 0
    /\ wfs_cloud = None
    /\ wfs_server = None
    /\ wfs_elapsed = 0
    /\ wfs_pc = "idle"
    /\ wfs_exc = None
    /\ wfs_timed_out = FALSE
    /\ wfs_calls = <<>>

WfsInit ==
    /\ wfs_entry \in {"wait_for_state", "delete_and_wait"}
    /\ wfs_target_states \in IF wfs_entry = "delete_and_wait" THEN {{None}}
                             ELSE TargetStates
    /\ wfs_timeout \in 0 .. MaxPolls
    /\ wfs_cloud \in WfsStatuses
    /\ wfs_server = wfs_cloud
    /\ wfs_elapsed = 0
    /\ wfs_pc = IF wfs_entry = "delete_and_wait" THEN "delete_server" ELSE "loop"
    /\ wfs_exc = None
    /\ wfs_timed_out = FALSE
    /\ wfs_calls = <<>>

\* line 660: cloud.compute.delete_server(server)
WfsDeleteServer ==
    /\ wfs_pc = "delete_server"
    /\ wfs_calls' = Append(wfs_calls, "delete_server")
    /\ \E o \in {None, "SDKException"} :
        /\ wfs_exc' = o
        /\ wfs_pc' = IF o = None THEN "loop" ELSE "raised"
    /\ UNCHANGED <<wfsArgs, wfs_cloud, wfs_server, wfs_elapsed, wfs_timed_out, wfsOthers>>

\* lines 643-646: the raise statement formats server['name'] and
\* ', '.join(target_states) before RuntimeError is built
TimeoutError(server, target_states) ==
    IF server = None THEN "TypeError"
    ELSE IF None \in target_states THEN "TypeError"
    ELSE "RuntimeError"

\* line 635: while time.time() - start < timeout, and the raise after the loop
WfsLoop ==
    /\ wfs_pc = "loop"
    /\ IF wfs_elapsed < wfs_timeout
       THEN /\ wfs_pc' = "find_server"
            /\ UNCHANGED <<wfs_exc, wfs_timed_out>>
       ELSE /\ wfs_pc' = "raised"
            /\ wfs_exc' = TimeoutError(wfs_server, wfs_target_states)
            /\ wfs_timed_out' = TRUE
    /\ UNCHANGED <<wfsArgs, wfs_cloud, wfs_server, wfs_elapsed, wfs_calls, wfsOthers>>

\* line 638: (server["status"] if server is not None else None) in target_states
ReachedAlways(server, target_states) == TRUE

Reached(server, target_states) == server \in target_states

\* lines 636-641: find_server, the test, time.sleep(interval)
WfsFindServer ==
    /\ wfs_pc = "find_server"
    /\ wfs_calls' = Append(wfs_calls, "find_server")
    /\ \E status \in CloudNext(wfs_cloud), d \in {1, 2} :
        /\ wfs_cloud' = status
        /\ wfs_server' = status
        /\ IF Reached(status, wfs_target_states)
           THEN wfs_pc' = "returned" /\ UNCHANGED wfs_elapsed
           ELSE wfs_pc' = "loop" /\ wfs_elapsed' = wfs_elapsed + d
    /\ UNCHANGED <<wfsArgs, wfs_exc, wfs_timed_out, wfsOthers>>

WfsNext ==
    \/ WfsDeleteServer
    \/ WfsLoop
    \/ WfsFindServer

\* C22: whenever delete_and_wait returns normally, delete_server was issued and
\* the last find_server probe returned None: the server is no longer listed.
C22_ReturnsOnlyWhenGone ==
    (wfs_entry = "delete_and_wait" /\ wfs_pc = "returned") =>
        /\ wfs_calls[1] = "delete_server"
        /\ wfs_calls[Len(wfs_calls)] = "find_server"
        /\ wfs_server = None
        /\ wfs_cloud = None

\* C22 witness: delete_and_wait has returned after a probe that still listed the
\* server and a probe that did not.
C22_Witness ==
    /\ wfs_entry = "delete_and_wait"
    /\ wfs_pc = "returned"
    /\ wfs_calls = <<"delete_server", "find_server", "find_server">>

\* C23: when the timeout elapses before the server reaches a target state,
\* wait_for_state and delete_and_wait fail with the RuntimeError their
\* docstrings announce, for every set of target states, {None} included.
C23_TimeoutRaisesRuntimeError ==
    wfs_timed_out => (wfs_pc = "raised" /\ wfs_exc = "RuntimeError")

(***************************************************************************)
(* unique_name (lines 199-233) on bounded inputs: the names of a prefix     *)
(* that are in use are the first un_n of the range but for at most one,    *)
(* beside names that the function cannot generate.                         *)
(***************************************************************************)
MaxNames == 3

\* how many of the first names of the prefix are in use
SegmentLengths == (0 .. MaxNames) \cup {NameRangeEnd - 1, NameRangeEnd}

\* the name left free among them, if any
Holes == {{}} \cup {{h} : h \in 0 .. MaxNames - 1} \cup {{NameRangeEnd - 1}}

UnPrefixes == {PREFIX \o Compute, PREFIX \o ComputeGeneral}

\* names of the other prefix, and names with a suffix that is not %04d
ForeignNames(prefix) ==
    {NameOf(q, 0) : q \in UnPrefixes \ {prefix}}
        \cup {prefix \o <<"-", "0">>, prefix \o <<"-", "1", "0", "0", "0", "0">>}

unOthers == <<baseVars, sshVars, wfsVars, arVars>>

UnIdle ==
    /\ un_prefix = <<>>
    /\ un_existing_names = {}
    /\ un_pc = "idle"
    /\ un_result = None

UnInit ==
    /\ un_prefix \in UnPrefixes
    /\ \E n \in SegmentLengths, holes \in Holes :
       \E foreign \in SUBSET ForeignNames(un_prefix) :
           un_existing_names =
               {NameOf(un_prefix, k) : k \in (0 .. n - 1) \ holes} \cup foreign
    /\ un_pc = "call"
    /\ un_result = None

\* lines 220-233
UniqueName ==
    /\ un_pc = "call"
    /\ un_result' = unique_name(un_prefix, un_existing_names)
    /\ un_pc' = IF un_result' = <<"ValueError">> THEN "raised" ELSE "returned"
    /\ UNCHANGED <<un_prefix, un_existing_names, unOthers>>

\* the numbers of the range whose name is not in use
FreeNumbers ==
    {k \in 0 .. NameRangeEnd - 1 : NameOf(un_prefix, k) \notin un_existing_names}

C27_RaisesIffExhausted ==
    un_pc \in {"returned", "raised"} =>
        (un_pc = "raised" /\ un_result = <<"ValueError">>) <=> (FreeNumbers = {})

\* the call failed on an exhausted set
C27_Witness ==
    /\ un_pc = "raised"
    /\ Cardinality(un_existing_names) >= NameRangeEnd

(***************************************************************************)
(* allocate_resources (htcondor_migration.py, lines 33-111), one statement  *)
(* at a time.  A dict is the sequence of its items [key, val] in insertion  *)
(* order; a group group_config is a function whose domain is the set of its keys. *)
(* A fraction is the number num / den; the fractions drawn are multiples of *)
(* one quarter, on which the floating-point products of lines 64-68 are     *)
(* exact.                                                                   *)
(***************************************************************************)
MaxSplitCount == 3

Fractions == {[num |-> k, den |-> 4] : k \in (0 - 1) .. 5}

\* line 47: 0 <= fraction <= 1
InUnitInterval(fraction) == 0 <= fraction.num /\ fraction.num <= fraction.den

\* math.ceil(count * num / den) for count * num >= 0
CeilOf(count, num, den) == (count * num + den - 1) \div den

TrainingWord == <<"t", "r", "a", "i", "n", "i", "n", "g">>
Upload == <<"u", "p", "l", "o", "a", "d">>
Interactive == <<"i", "n", "t", "e", "r", "a", "c", "t", "i", "v", "e">>
SplitTraining == TrainingWord \o <<"-", "a">>

\* f"{group}-htcondor-secondary"
SecondaryOf(group) ==
    group \o <<"-", "h", "t", "c", "o", "n", "d", "o", "r",
               "-", "s", "e", "c", "o", "n", "d", "a", "r", "y">>

\* lines 23-30
IMAGE_MAPPING ==
    [image \in {"default", "gpu", "secure", "alma", "htcondor-secondary",
                "htcondor-secondary-gpu"} |->
        IF image \in {"gpu", "htcondor-secondary-gpu"}
        THEN "htcondor-secondary-gpu" ELSE "htcondor-secondary"]

\* dict operations
Item(key, val) == [key |-> key, val |-> val]
HasKey(d, key) == \E k \in 1 .. Len(d) : d[k].key = key
GetItem(d, key) == d[CHOOSE k \in 1 .. Len(d) : d[k].key = key].val
\* d[key] = val: the key keeps its place when d has it, is appended otherwise
SetItem(d, key, val) ==
    IF HasKey(d, key)
    THEN [k \in 1 .. Len(d) |-> IF d[k].key = key THEN Item(key, val) ELSE d[k]]
    ELSE Append(d, Item(key, val))
DelItem(d, key) == SelectSeq(d, LAMBDA item : item.key # key)
\* a | b
RECURSIVE Union(_, _)
Union(a, b) ==
    IF b = <<>> THEN a ELSE Union(SetItem(a, Head(b).key, Head(b).val), Tail(b))
\* config.get(key, default)
GetOr(group_config, key, default) == IF key \in DOMAIN group_config THEN group_config[key] ELSE default

\* the documents drawn: one or two groups, in either order, of an upload, an
\* interactive, a compute and a training group; a group_config has a count, may have
\* its "group" field and, for compute, an image
SplitKeys == {Upload, Interactive, Compute, SplitTraining}

SplitConfigs(key) ==
    LET counts == {[count |-> c] : c \in 0 .. MaxSplitCount}
        grouped == {("group" :> key) @@ cfg : cfg \in counts}
        imaged == IF key = Compute
                  THEN {("image" :> "gpu") @@ cfg : cfg \in grouped} ELSE {}
    IN  counts \cup grouped \cup imaged

SplitItems == UNION { {Item(key, cfg) : cfg \in SplitConfigs(key)} : key \in SplitKeys }

SplitDeployments ==
    {<<item>> : item \in SplitItems}
        \cup {d \in SplitItems \X SplitItems : d[1].key # d[2].key}

\* the object the argument resources refers to
Resources == 1

\* a copy that is the object itself
deepcopyShared(store, object) == object

\* deepcopy(x): a new object
deepcopy(store, object) == Cardinality(DOMAIN store) + 1

\* the store once deepcopy(object) is in it
Copied(store, object) == (deepcopy(store, object) :> store[object]) @@ store

ArIdle ==
    /\ ar_input = [deployment |-> <<>>]
    /\ ar_fraction = [num |-> 0, den |-> 1]
    /\ ar_store = <<>>
    /\ ar_original = 0
    /\ ar_modified = 0
    /\ ar_primary = <<>>
    /\ ar_secondary = <<>>
    /\ ar_k = 0
    /\ ar_pc = "idle"
    /\ ar_exc = None
    /\ ar_result = 0

ArInit ==
    /\ ar_input \in [deployment : SplitDeployments]
    /\ ar_fraction \in Fractions
    /\ ar_store = (Resources :> ar_input)
    /\ ar_original = 0
    /\ ar_modified = 0
    /\ ar_primary = <<>>
    /\ ar_secondary = <<>>
    /\ ar_k = 0
    /\ ar_pc = "check"
    /\ ar_exc = None
    /\ ar_result = 0

arOthers == <<baseVars, sshVars, wfsVars, unVars>>

\* lines 47-51
ArCheck ==
    /\ ar_pc = "check"
    /\ IF ~InUnitInterval(ar_fraction)
       THEN ar_pc' = "raised" /\ ar_exc' = "ValueError" /\ UNCHANGED ar_result
       ELSE IF ar_fraction.num <= 0
       THEN ar_pc' = "returned" /\ ar_result' = Resources /\ UNCHANGED ar_exc
       ELSE ar_pc' = "copy" /\ UNCHANGED <<ar_exc, ar_result>>
    /\ UNCHANGED <<ar_input, ar_fraction, ar_store, ar_original, ar_modified,
                   ar_primary, ar_secondary, ar_k, arOthers>>

\* lines 53-57
ArCopy ==
    /\ ar_pc = "copy"
    /\ LET original == deepcopy(ar_store, Resources)
           store1 == Copied(ar_store, Resources)
           modified == deepcopy(store1, Resources)
           store2 == Copied(store1, Resources)
       IN  /\ ar_original' = original
           /\ ar_modified' = modified
           /\ ar_store' = store2
           /\ ar_primary' = store2[modified].deployment
    /\ ar_secondary' = <<>>
    /\ ar_k' = 1
    /\ ar_pc' = "loop"
    /\ UNCHANGED <<ar_input, ar_fraction, ar_exc, ar_result, arOthers>>

\* lines 61-63
IsTrainingGroup(group, group_config) ==
    StartsWith(group, TrainingWord) \/ Contains(GetOr(group_config, "group", <<>>), TrainingWord)

\* lines 64, 67: ceil(config["count"] * (1 - fraction))
CountPrimary(group_config, fraction) ==
    CeilOf(group_config.count, fraction.den - fraction.num, fraction.den)

\* the count of line 68 for every group, training or not
CountSecondaryAllCeil(group, group_config, fraction) ==
    CeilOf(group_config.count, fraction.num, fraction.den)

\* lines 65, 68
CountSecondary(group, group_config, fraction) ==
    IF IsTrainingGroup(group, group_config)
    THEN group_config.count - CountPrimary(group_config, fraction)
    ELSE CeilOf(group_config.count, fraction.num, fraction.den)

\* an entry is written whatever its count
PositiveOrZero(count) == count >= 0

\* lines 70, 74: if count_primary > 0, if count_secondary > 0
Positive(count) == count > 0

\* lines 75-80
SecondaryConfig(group_config, count_secondary) ==
    ("count" :> count_secondary)
        @@ ("image" :> IMAGE_MAPPING[GetOr(group_config, "image", "default")])
        @@ ("secondary_htcondor_cluster" :> TRUE)
        @@ group_config

\* lines 58-80: one iteration of the loop, lines 81 when the items are exhausted
ArLoop ==
    /\ ar_pc = "loop"
    /\ LET items == ar_store[Resources].deployment
       IN  IF ar_k > Len(items)
           THEN /\ ar_store' = [ar_store EXCEPT ![ar_modified].deployment =
                                    Union(ar_secondary, ar_primary)]
                /\ ar_pc' = "order"
                /\ UNCHANGED <<ar_primary, ar_secondary, ar_k>>
           ELSE LET group == items[ar_k].key
                    group_config == items[ar_k].val
                    count_primary == CountPrimary(group_config, ar_fraction)
                    count_secondary == CountSecondary(group, group_config, ar_fraction)
                IN  /\ ar_primary' =
                        IF Positive(count_primary)
                        THEN SetItem(ar_primary, group,
                                     ("count" :> count_primary) @@ group_config)
                        ELSE DelItem(ar_primary, group)
                    /\ ar_secondary' =
                        IF Positive(count_secondary)
                        THEN SetItem(ar_secondary, SecondaryOf(group),
                                     SecondaryConfig(group_config, count_secondary))
                        ELSE ar_secondary
                    /\ ar_k' = ar_k + 1
                    /\ UNCHANGED <<ar_store, ar_pc>>
    /\ UNCHANGED <<ar_input, ar_fraction, ar_original, ar_modified, ar_exc, ar_result,
                   arOthers>>

\* lines 92-106: the items of a role with a positive count; "training" stands
\* for the third comprehension, the items whose group field lacks the word
Selected(d, role) ==
    SelectSeq(d, LAMBDA item :
        /\ IF role = TrainingWord
           THEN ~Contains(item.val["group"], TrainingWord)
           ELSE item.val["group"] = role
        /\ GetOr(item.val, "count", 0) > 0)

\* the merge without its last operand
ReorderedPrimaryKept(d, original_deployment) ==
    Union(Union(Union(Selected(d, Upload), Selected(d, Interactive)),
                Selected(d, TrainingWord)),
          d)

\* lines 91-109: the value assigned to modified["deployment"]
Reordered(d, original_deployment) ==
    Union(Union(Union(Union(Selected(d, Upload), Selected(d, Interactive)),
                      Selected(d, TrainingWord)),
                d),
          original_deployment)

\* lines 91-111
ArOrder ==
    /\ ar_pc = "order"
    /\ LET d == ar_store[ar_modified].deployment
       IN  IF \E k \in 1 .. Len(d) : "group" \notin DOMAIN d[k].val
           THEN /\ ar_pc' = "raised"
                /\ ar_exc' = "KeyError"
                /\ UNCHANGED <<ar_store, ar_result>>
           ELSE /\ ar_store' = [ar_store EXCEPT ![ar_modified].deployment =
                        Reordered(d, ar_store[ar_original].deployment)]
                /\ ar_pc' = "returned"
                /\ ar_result' = ar_modified
                /\ UNCHANGED ar_exc
    /\ UNCHANGED <<ar_input, ar_fraction, ar_original, ar_modified, ar_primary,
                   ar_secondary, ar_k, arOthers>>

ArNext == ArCheck \/ ArCopy \/ ArLoop \/ ArOrder

(***************************************************************************)
(* Claims about allocate_resources.                                         *)
(***************************************************************************)
Emitted == ar_store[ar_result].deployment
CountIn(d, key) == IF HasKey(d, key) THEN GetItem(d, key).count ELSE 0
\* the call returned a document for a fraction in (0, 1]
SplitReturned == ar_pc = "returned" /\ ar_fraction.num > 0
Originals == 1 .. Len(ar_input.deployment)
OriginalKey(k) == ar_input.deployment[k].key
OriginalConfig(k) == ar_input.deployment[k].val
Together(k) ==
    CountIn(Emitted, OriginalKey(k)) + CountIn(Emitted, SecondaryOf(OriginalKey(k)))

\* C31: for 0 < fraction <= 1, every training group with original count n is
\* emitted with count(g) + count(g-htcondor-secondary) = n, an absent entry
\* counting as 0.
C31_TrainingConserved ==
    SplitReturned =>
        \A k \in Originals :
            IsTrainingGroup(OriginalKey(k), OriginalConfig(k)) =>
                Together(k) = OriginalConfig(k).count

\* C31 as amended: a training group with original count n is emitted with its
\* count n, and its secondary group with the count n - ceil(n * (1 - fraction)),
\* an absent entry counting as 0.
C31_TrainingKeptAndSplit ==
    SplitReturned =>
        \A k \in Originals :
            IsTrainingGroup(OriginalKey(k), OriginalConfig(k)) =>
                /\ CountIn(Emitted, OriginalKey(k)) = OriginalConfig(k).count
                /\ CountIn(Emitted, SecondaryOf(OriginalKey(k))) =
                       OriginalConfig(k).count
                           - CountPrimary(OriginalConfig(k), ar_fraction)

\* a training group of which a part went to the secondary cluster
C31_Witness ==
    /\ SplitReturned
    /\ \E k \in Originals :
        /\ IsTrainingGroup(OriginalKey(k), OriginalConfig(k))
        /\ 0 < CountIn(Emitted, SecondaryOf(OriginalKey(k)))
        /\ CountIn(Emitted, SecondaryOf(OriginalKey(k))) < OriginalConfig(k).count

\* C32: every original group with count n is emitted with the count
\* ceil(n * (1 - fraction)), and for a group that is not a training group
\* count(g) + count(g-htcondor-secondary) exceeds n by at most 1.
C32_PrimaryIsCeiling ==
    ar_pc = "returned" =>
        \A k \in Originals :
            /\ CountIn(Emitted, OriginalKey(k)) =
                   CountPrimary(OriginalConfig(k), ar_fraction)
            /\ ~IsTrainingGroup(OriginalKey(k), OriginalConfig(k)) =>
                   Together(k) <= OriginalConfig(k).count + 1

\* C32 as amended: every original group with count n is emitted with its count
\* n, and for a group that is not a training group the secondary group has the
\* count ceil(n * fraction), an absent entry counting as 0.
C32_OriginalCountKept ==
    ar_pc = "returned" =>
        \A k \in Originals :
            /\ CountIn(Emitted, OriginalKey(k)) = OriginalConfig(k).count
            /\ ~IsTrainingGroup(OriginalKey(k), OriginalConfig(k)) =>
                   CountIn(Emitted, SecondaryOf(OriginalKey(k))) =
                       CeilOf(OriginalConfig(k).count, ar_fraction.num,
                              ar_fraction.den)

\* a group that is not a training group and ends more than one above its count
C32_Witness ==
    /\ SplitReturned
    /\ \E k \in Originals :
        /\ ~IsTrainingGroup(OriginalKey(k), OriginalConfig(k))
        /\ CountPrimary(OriginalConfig(k), ar_fraction) < OriginalConfig(k).count
        /\ Together(k) > OriginalConfig(k).count + 1

\* C33: for 0 < fraction <= 1 the document emitted has no group whose count is
\* 0: an entry whose computed count is 0 is dropped, so that an original group
\* whose primary count is 0 is not in the document.
C33_ZeroCountDropped ==
    SplitReturned =>
        /\ \A e \in 1 .. Len(Emitted) : Emitted[e].val.count > 0
        /\ \A k \in Originals :
               CountPrimary(OriginalConfig(k), ar_fraction) = 0 =>
                   ~HasKey(Emitted, OriginalKey(k))

\* C33 as amended: for 0 < fraction <= 1 no secondary group is emitted with the
\* count 0, and every original group is emitted with the config it had.
C33_NoZeroSecondary ==
    SplitReturned =>
        /\ \A e \in 1 .. Len(Emitted) :
               ~HasKey(ar_input.deployment, Emitted[e].key) =>
                   Emitted[e].val.count > 0
        /\ \A k \in Originals :
               /\ HasKey(Emitted, OriginalKey(k))
               /\ GetItem(Emitted, OriginalKey(k)) = OriginalConfig(k)

\* a group with servers none of which goes to the secondary cluster, beside one
\* that is split
C33_Witness ==
    /\ SplitReturned
    /\ \E k \in Originals :
        /\ OriginalConfig(k).count > 0
        /\ CountSecondary(OriginalKey(k), OriginalConfig(k), ar_fraction) = 0
        /\ ~HasKey(Emitted, SecondaryOf(OriginalKey(k)))
    /\ \E k \in Originals : HasKey(Emitted, SecondaryOf(OriginalKey(k)))

\* C34: the call leaves the document passed as it was; with fraction 0 it
\* returns a document equal to it; a fraction outside [0, 1] raises ValueError
\* and returns no document.
C34_Pure ==
    /\ ar_pc # "idle" => ar_store[Resources] = ar_input
    /\ (ar_pc = "returned" /\ ar_fraction.num = 0) => Emitted = ar_input.deployment
    /\ (ar_pc \in {"returned", "raised"} /\ ~InUnitInterval(ar_fraction)) =>
           (ar_pc = "raised" /\ ar_exc = "ValueError" /\ ar_result = 0)

\* a call that returned a document other than the one passed
C34_Witness ==
    /\ SplitReturned
    /\ ar_result # Resources
    /\ Emitted # ar_input.deployment
    /\ ar_store[Resources] = ar_input

\* upload, then interactive, then the other groups that are not training
\* groups, then the training groups
RoleRank(item) ==
    IF GetOr(item.val, "group", <<>>) = Upload THEN 1
    ELSE IF GetOr(item.val, "group", <<>>) = Interactive THEN 2
    ELSE IF ~IsTrainingGroup(item.key, item.val) THEN 3
    ELSE 4

\* C35: for every input document, also one whose groups have no "group" field,
\* a document is emitted in which the upload groups precede the interactive
\* groups, which precede the other non-training groups, which precede the
\* training groups.
C35_RoleOrder ==
    (ar_pc \in {"returned", "raised"} /\ InUnitInterval(ar_fraction)
            /\ ar_fraction.num > 0) =>
        /\ ar_pc = "returned"
        /\ \A e, f \in 1 .. Len(Emitted) :
               e < f => RoleRank(Emitted[e]) <= RoleRank(Emitted[f])

AuxIdle == SshIdle /\ WfsIdle /\ UnIdle /\ ArIdle

(***************************************************************************)
(* Specifications.  Spec: one call of synchronize_infrastructure on every   *)
(* bounded desired state and fleet.  SpecInc: compute_increment.  SpecCC:   *)
(* check_conflicts.  The variables of the other calls stay idle.            *)
(***************************************************************************)
vars == <<mainVars, incVars, ccVars, cmdVars, gtVars, auxVars>>

MainIdle ==
    /\ config = [deployment |-> <<>>]
    /\ dry_run = TRUE
    /\ cloud = {}
    /\ next_id = FirstNewId
    /\ pc = "idle"
    /\ raised = None
    /\ servers = <<>>
    /\ servers_by_group = <<>>
    /\ increments = <<>>
    /\ removals = <<>>
    /\ replacements = <<>>
    /\ server_names = {}
    /\ gi = 1
    /\ i = 0
    /\ ri = 1
    /\ calls = <<>>

Init == MainInit /\ IncIdle /\ CcIdle /\ CmdIdle /\ GtIdle /\ AuxIdle

Next == MainNext

Spec == Init /\ [][Next]_vars

InitInc == IncInit /\ MainIdle /\ CcIdle /\ CmdIdle /\ GtIdle /\ AuxIdle

NextInc == ComputeIncrement

SpecInc == InitInc /\ [][NextInc]_vars

InitCC == CcInit /\ MainIdle /\ IncIdle /\ CmdIdle /\ GtIdle /\ AuxIdle

NextCC == CheckConflicts

SpecCC == InitCC /\ [][NextCC]_vars

InitCmd == CmdInit /\ MainIdle /\ IncIdle /\ CcIdle /\ GtIdle /\ AuxIdle

NextCmd == CmdNext

SpecCmd == InitCmd /\ [][NextCmd]_vars

InitGT == GtInit /\ MainIdle /\ IncIdle /\ CcIdle /\ CmdIdle /\ AuxIdle

NextGT == GtNext

SpecGT == InitGT /\ [][NextGT]_vars

\* the call is not suspended for ever while one of its statements can run
SpecGTLive == SpecGT /\ WF_vars(NextGT)

OthersIdle == MainIdle /\ IncIdle /\ CcIdle /\ CmdIdle /\ GtIdle

InitSsh == SshInit /\ OthersIdle /\ WfsIdle /\ UnIdle /\ ArIdle

NextSsh == SshNext

SpecSsh == InitSsh /\ [][NextSsh]_vars

InitWfs == WfsInit /\ OthersIdle /\ SshIdle /\ UnIdle /\ ArIdle

NextWfs == WfsNext

SpecWfs == InitWfs /\ [][NextWfs]_vars

InitUn == UnInit /\ OthersIdle /\ SshIdle /\ WfsIdle /\ ArIdle

NextUn == UniqueName

SpecUn == InitUn /\ [][NextUn]_vars

InitAr == ArInit /\ OthersIdle /\ SshIdle /\ WfsIdle /\ UnIdle

NextAr == ArNext

SpecAr == InitAr /\ [][NextAr]_vars

=============================================================================
